---- MODULE Spec2Model ----
(***************************************************************************)
(* Model of the directory-synchronisation engine of go-folderfort          *)
(* (helpers.go): getEntriesByName, getFolder, GetOrCreateFolder,           *)
(* DeleteEntries, UploadFile, UploadFileFromPath, shouldExclude and        *)
(* UploadDirectory, run by one sequential client against a remote          *)
(* FolderFort service.  Names and paths are sequences of one-character     *)
(* strings; a nil *int64 is the value Nil.  Every remote request is one    *)
(* step and is recorded in reqs.                                           *)
(***************************************************************************)
EXTENDS Integers, Sequences, FiniteSets, TLC

VARIABLES
    remote,   \* entries held by the service, in creation order; id = index
    srv,      \* how the service answers an index query (fixed per behaviour)
    fs,       \* which local tree the client sees (fixed per behaviour)
    stack,    \* call stack of the client, innermost frame last
    ret,      \* value and error returned by the frame that returned last
    reqs,     \* every remote request issued so far, with its response
    calls,    \* the top-level calls made so far, with their results
    faults,   \* number of non-nominal responses given so far
    visits,   \* loop iterations of UploadDirectory so far
    parked    \* stack and ret of the goroutine that is not running, if any

vars == <<remote, srv, fs, stack, ret, reqs, calls, faults, visits, parked>>

\* ---------------------------------------------------------------- bounds
MaxCalls  == 2
MaxFaults == 1

\* -------------------------------------------------------------- strings
Nil == 0

Last(s) == s[Len(s)]

RECURSIVE Reverse(_)
Reverse(s) == IF s = <<>> THEN <<>> ELSE Reverse(Tail(s)) \o <<Head(s)>>

Sl == <<"/">>

\* strings.HasSuffix / strings.TrimSuffix
HasSuffix(s, suf) ==
    /\ Len(s) >= Len(suf)
    /\ SubSeq(s, Len(s) - Len(suf) + 1, Len(s)) = suf

\* The suffix left in place
TrimSuffix_Keep(s, suf) == s

TrimSuffix(s, suf) ==
    IF HasSuffix(s, suf) THEN SubSeq(s, 1, Len(s) - Len(suf)) ELSE s

\* filepath.Split: scan back from the end to the last separator
RECURSIVE LastSep(_, _)
LastSep(path, i) ==
    IF i >= 1 /\ path[i] # "/" THEN LastSep(path, i - 1) ELSE i

Split(path) ==
    LET i == LastSep(path, Len(path))
    IN  <<SubSeq(path, 1, i), SubSeq(path, i + 1, Len(path))>>

\* strings.Index / strings.Contains: first offset at which sub occurs
RECURSIVE IndexFrom(_, _, _)
IndexFrom(s, sub, i) ==
    IF i + Len(sub) > Len(s) THEN -1
    ELSE IF SubSeq(s, i + 1, i + Len(sub)) = sub THEN i
    ELSE IndexFrom(s, sub, i + 1)

Contains(s, sub) == IndexFrom(s, sub, 0) >= 0


\* ------------------------------------------------- the remote service
\* A remote entry.  parent = 0 for an entry at the root: the client decodes
\* a null parent_id into the zero value of ParentID int64.
Entry(id, name, parent, typ) ==
    [id |-> id, name |-> name, parent |-> parent, typ |-> typ, live |-> TRUE]

\* Responses the transport can deliver: a transport error, or a status with a
\* body that parses or does not.
TransportError == [transport |-> TRUE, status |-> 0, bodyOk |-> FALSE]

BadBody == [transport |-> FALSE, status |-> 200, bodyOk |-> FALSE]

OkResp(status) == [transport |-> FALSE, status |-> status, bodyOk |-> TRUE]

\* The status the service gives on success: 201 for an upload, 200 otherwise.
SuccessStatus(kind) == IF kind = "upload" THEN 201 ELSE 200

Nominal(kind, r) == r = OkResp(SuccessStatus(kind))

\* The ways a request of each kind can go wrong: no response at all, a
\* rejection, the success status of another operation, or (where the client
\* parses the body) a body that does not parse.
Failures(kind) ==
    {TransportError, OkResp(500)} \cup
    (IF kind = "upload" THEN {OkResp(200)}
     ELSE IF kind = "delete" THEN {OkResp(201)}
     ELSE IF kind = "create" THEN {OkResp(201), BadBody}
     ELSE {BadBody})

\* The responses possible for the next request: any response while the
\* fault budget lasts, the nominal one after that.
RespsFor(kind) ==
    {OkResp(SuccessStatus(kind))} \cup
    (IF faults < MaxFaults THEN Failures(kind) ELSE {})

\* The service carried the request out iff it answered with a 2xx status.
Applied(r) == ~r.transport /\ r.status \in {200, 201}

\* The index query: a text search over the live entries (query is a substring
\* of the name), narrowed by type when one is given and by parent when one is
\* given and the service honours parentIds; listed oldest or newest first.
IndexEntry(query, parentID, typ) ==
    LET hit(e) ==
            /\ e.live
            /\ Contains(e.name, query)
            /\ (typ # "" => e.typ = typ)
            /\ (parentID # Nil /\ srv.honorParent => e.parent = parentID)
        found == SelectSeq(remote, hit)
    IN  IF srv.newestFirst THEN Reverse(found) ELSE found

\* ------------------------------------------------------ getEntriesByName
\* The loop without the test of the reported parent
RECURSIVE FilterData_AnyParent(_, _, _)
FilterData_AnyParent(data, name, parentID) ==
    IF data = <<>> THEN <<>>
    ELSE LET v    == Head(data)
             rest == FilterData_AnyParent(Tail(data), name, parentID)
         IN  IF v.name = name THEN <<v.id>> \o rest ELSE rest

\* The loop over indexEntryResp.Data.
RECURSIVE FilterData(_, _, _)
FilterData(data, name, parentID) ==
    IF data = <<>> THEN <<>>
    ELSE LET v    == Head(data)
             rest == FilterData(Tail(data), name, parentID)
         IN  IF parentID # Nil /\ parentID # v.parent THEN rest
             ELSE IF v.name = name THEN <<v.id>> \o rest
             ELSE rest

\* The lookup without the test of the status
getEntriesByName_AnyStatus(r, data, name, parentID) ==
    IF r.transport \/ ~r.bodyOk
    THEN [ids |-> <<>>, err |-> TRUE]
    ELSE [ids |-> FilterData(data, name, parentID), err |-> FALSE]

\* Result of getEntriesByName for the response r carrying data.
getEntriesByName(r, data, name, parentID) ==
    IF r.transport \/ r.status # 200 \/ ~r.bodyOk
    THEN [ids |-> <<>>, err |-> TRUE]
    ELSE [ids |-> FilterData(data, name, parentID), err |-> FALSE]

\* Result of getFolder: the first id, or an error when the lookup failed or
\* found nothing.
getFolder(r, data, name, parentID) ==
    LET res == getEntriesByName(r, data, name, parentID)
    IN  IF res.err THEN [val |-> Nil, err |-> TRUE]
        ELSE IF Len(res.ids) > 0 THEN [val |-> res.ids[1], err |-> FALSE]
        ELSE [val |-> Nil, err |-> TRUE]

\* ------------------------------------------------------- request records
Req(kind, name, parentID, typ, ids, r, data, got, src) ==
    [kind |-> kind, name |-> name, parent |-> parentID, typ |-> typ,
     ids |-> ids, resp |-> r, data |-> data, got |-> got, src |-> src,
     forever |-> FALSE, call |-> stack[1].call, depth |-> Len(stack)]

\* ------------------------------------------------------------ call stack
Top == stack[Len(stack)]

Frame(fn, name, parentID) ==
    [fn |-> fn, pc |-> "start", name |-> name, parent |-> parentID,
     base |-> <<>>, ow |-> FALSE, readerOk |-> TRUE, path |-> <<>>,
     idx |-> 0, pats |-> <<>>, patsNil |-> FALSE, entries |-> <<>>,
     ids |-> <<>>, src |-> <<>>, call |-> 0]

SetTop(f) == [stack EXCEPT ![Len(stack)] = f]

Push(f, g) == Append(SetTop(f), g)

\* The top frame returns (v, e) to its caller, or to the top-level call.
Return(v, e) ==
    /\ stack' = SubSeq(stack, 1, Len(stack) - 1)
    /\ ret' = [val |-> v, err |-> e]
    /\ calls' = IF Len(stack) = 1
                THEN [calls EXCEPT ![stack[1].call] =
                        [@ EXCEPT !.done = TRUE, !.val = v, !.err = e]]
                ELSE calls

Running(fn, pc) == stack # <<>> /\ Top.fn = fn /\ Top.pc = pc

\* ----------------------------------------------------- GetOrCreateFolder
\* The entry without the test of the empty name
GOCF_Start_NoCheck ==
    /\ Running("GetOrCreateFolder", "start")
    /\ LET f         == Top
           sp        == Split(f.name)
           parentDir == TrimSuffix(sp[1], Sl)
           baseDir   == sp[2]
       IN  /\ IF parentDir # <<>>
              THEN stack' = Push([f EXCEPT !.pc = "afterRec",
                                           !.base = baseDir],
                                 [Frame("GetOrCreateFolder", parentDir,
                                        f.parent)
                                   EXCEPT !.src = f.src])
              ELSE stack' = SetTop([f EXCEPT !.pc = "lookup"])
           /\ UNCHANGED <<ret, calls>>
    /\ UNCHANGED <<remote, srv, fs, parked, reqs, faults, visits>>

\* Entry of GetOrCreateFolder: the empty-name check and the split of the
\* name; a non-empty parent directory is resolved first by a recursive call.
GOCF_Start ==
    /\ Running("GetOrCreateFolder", "start")
    /\ LET f         == Top
           sp        == Split(f.name)
           parentDir == TrimSuffix(sp[1], Sl)
           baseDir   == sp[2]
       IN  IF f.name = <<>>
           THEN Return(Nil, TRUE)
           ELSE /\ IF parentDir # <<>>
                   THEN stack' = Push([f EXCEPT !.pc = "afterRec",
                                                !.base = baseDir],
                                      [Frame("GetOrCreateFolder", parentDir,
                                             f.parent)
                                        EXCEPT !.src = f.src])
                   ELSE stack' = SetTop([f EXCEPT !.pc = "lookup"])
                /\ UNCHANGED <<ret, calls>>
    /\ UNCHANGED <<remote, srv, fs, parked, reqs, faults, visits>>

\* The frame that forgets the folder resolved for its parent directory
KeepParent(f, id) == [f EXCEPT !.pc = "lookup", !.name = f.base]

\* parentID, err = c.GetOrCreateFolder(...); name = baseDir
WithParent(f, id) ==
    [f EXCEPT !.pc = "lookup", !.parent = id, !.name = f.base]

\* After the recursive call: parentID and name are overwritten, then the
\* error is tested.
GOCF_AfterRec ==
    /\ Running("GetOrCreateFolder", "afterRec")
    /\ LET f == Top
       IN  IF ret.err
           THEN Return(Nil, TRUE)
           ELSE /\ stack' = SetTop(WithParent(f, ret.val))
                /\ UNCHANGED <<ret, calls>>
    /\ UNCHANGED <<remote, srv, fs, parked, reqs, faults, visits>>

\* The lookup whose error is returned instead of leading to the creation
GOCF_Lookup_GetOnly ==
    /\ Running("GetOrCreateFolder", "lookup")
    /\ \E r \in RespsFor("lookup") :
        LET f    == Top
            data == IF Nominal("lookup", r)
                    THEN IndexEntry(f.name, f.parent, "folder") ELSE <<>>
            res  == getFolder(r, data, f.name, f.parent)
        IN  /\ reqs' = Append(reqs, Req("lookup", f.name, f.parent, "folder",
                                        <<>>, r, data, res.val, f.src))
            /\ faults' = IF Nominal("lookup", r) THEN faults ELSE faults + 1
            /\ Return(res.val, res.err)
    /\ UNCHANGED <<remote, srv, fs, parked, visits>>

\* c.getFolder(ctx, name, parentID): one index request filtered to folders.
\* A nil error returns the id; any error falls through to the creation.
GOCF_Lookup ==
    /\ Running("GetOrCreateFolder", "lookup")
    /\ \E r \in RespsFor("lookup") :
        LET f    == Top
            data == IF Nominal("lookup", r)
                    THEN IndexEntry(f.name, f.parent, "folder") ELSE <<>>
            res  == getFolder(r, data, f.name, f.parent)
        IN  /\ reqs' = Append(reqs, Req("lookup", f.name, f.parent, "folder",
                                        <<>>, r, data, res.val, f.src))
            /\ faults' = IF Nominal("lookup", r) THEN faults ELSE faults + 1
            /\ IF ~res.err
               THEN Return(res.val, FALSE)
               ELSE /\ stack' = SetTop([f EXCEPT !.pc = "create"])
                    /\ UNCHANGED <<ret, calls>>
    /\ UNCHANGED <<remote, srv, fs, parked, visits>>

\* The creation taking every 2xx status for success
GOCF_Create_Any2xx ==
    /\ Running("GetOrCreateFolder", "create")
    /\ \E r \in RespsFor("create") :
        LET f     == Top
            newId == Len(remote) + 1
            ok    == Applied(r) /\ r.bodyOk
            got   == IF ok THEN newId ELSE Nil
        IN  /\ remote' = IF Applied(r)
                         THEN Append(remote,
                                     Entry(newId, f.name, f.parent, "folder"))
                         ELSE remote
            /\ reqs' = Append(reqs, Req("create", f.name, f.parent, "",
                                        <<>>, r, <<>>, got, f.src))
            /\ faults' = IF Nominal("create", r) THEN faults ELSE faults + 1
            /\ Return(got, ~ok)
    /\ UNCHANGED <<srv, fs, parked, visits>>

\* c.CreateFolderWithBody with {name, parentId?}; status 200 and a body that
\* parses return the new id.
GOCF_Create ==
    /\ Running("GetOrCreateFolder", "create")
    /\ \E r \in RespsFor("create") :
        LET f     == Top
            newId == Len(remote) + 1
            ok    == ~r.transport /\ r.status = 200 /\ r.bodyOk
            got   == IF ok THEN newId ELSE Nil
        IN  /\ remote' = IF Applied(r)
                         THEN Append(remote,
                                     Entry(newId, f.name, f.parent, "folder"))
                         ELSE remote
            /\ reqs' = Append(reqs, Req("create", f.name, f.parent, "",
                                        <<>>, r, <<>>, got, f.src))
            /\ faults' = IF Nominal("create", r) THEN faults ELSE faults + 1
            /\ Return(got, ~ok)
    /\ UNCHANGED <<srv, fs, parked, visits>>


\* ---------------------------------------------------------- DeleteEntries
Digits == <<"0", "1", "2", "3", "4", "5", "6", "7", "8", "9">>

\* fmt.Sprintf("%v", id) of a non-negative id: its decimal digits
RECURSIVE Itoa(_)
Itoa(n) ==
    IF n < 10 THEN <<Digits[n + 1]>>
    ELSE Itoa(n \div 10) \o <<Digits[(n % 10) + 1]>>

\* The service reads an entry id back from its decimal digits.
DigitVal(d) == CHOOSE k \in 0..9 : Digits[k + 1] = d

RECURSIVE Atoi(_)
Atoi(ds) ==
    IF ds = <<>> THEN 0
    ELSE 10 * Atoi(SubSeq(ds, 1, Len(ds) - 1)) + DigitVal(Last(ds))

\* strIDs of UploadFile: each id formatted with %v, in order.
StrIDs(ids) == [i \in 1..Len(ids) |-> Itoa(ids[i])]

\* The service moves the named entries to the trash.
Trash(strIDs) ==
    LET named == {Atoi(strIDs[i]) : i \in 1..Len(strIDs)}
    IN  [i \in 1..Len(remote) |->
            IF remote[i].id \in named
            THEN [remote[i] EXCEPT !.live = FALSE] ELSE remote[i]]

\* The request body EntriesDeleteJSONRequestBody{EntryIds: &ids}: the ids,
\* and the delete flag, which DeleteEntries never sets, at its non-permanent
\* value.
DeleteBody(ids) == [entryIds |-> ids, deleteForever |-> FALSE]

\* DeleteEntries taking every 2xx status for success
DE_Request_Any2xx ==
    /\ Running("DeleteEntries", "start")
    /\ \E r \in RespsFor("delete") :
        LET f    == Top
            body == DeleteBody(f.ids)
        IN  /\ remote' = IF Applied(r) /\ ~body.deleteForever
                         THEN Trash(body.entryIds) ELSE remote
            /\ reqs' = Append(reqs,
                              [Req("delete", <<>>, Nil, "", body.entryIds, r,
                                   <<>>, Nil, f.src)
                                 EXCEPT !.forever = body.deleteForever])
            /\ faults' = IF Nominal("delete", r) THEN faults ELSE faults + 1
            /\ Return(Nil, ~Applied(r))
    /\ UNCHANGED <<srv, fs, parked, visits>>

\* DeleteEntries: one EntriesDelete request carrying all ids; DeleteForever
\* is left unset.  An error unless the status is 200.
DE_Request ==
    /\ Running("DeleteEntries", "start")
    /\ \E r \in RespsFor("delete") :
        LET f    == Top
            body == DeleteBody(f.ids)
            ok   == ~r.transport /\ r.status = 200
        IN  /\ remote' = IF Applied(r) /\ ~body.deleteForever
                         THEN Trash(body.entryIds) ELSE remote
            /\ reqs' = Append(reqs,
                              [Req("delete", <<>>, Nil, "", body.entryIds, r,
                                   <<>>, Nil, f.src)
                                 EXCEPT !.forever = body.deleteForever])
            /\ faults' = IF Nominal("delete", r) THEN faults ELSE faults + 1
            /\ Return(Nil, ~ok)
    /\ UNCHANGED <<srv, fs, parked, visits>>

\* ------------------------------------------------------------- UploadFile
\* The overwrite branch taken whatever the flag
AfterParent_Always(f) == "overwrite"

\* The overwrite branch never taken
AfterParent_Never(f) == "upload"

\* The step that follows the resolution of the parent folder.
AfterParent(f) == IF f.ow THEN "overwrite" ELSE "upload"

\* Entry of UploadFile: the empty-name check and the split of the file name;
\* a non-empty parent directory is resolved with GetOrCreateFolder.
UF_Start ==
    /\ Running("UploadFile", "start")
    /\ LET f         == Top
           sp        == Split(f.name)
           parentDir == TrimSuffix(sp[1], Sl)
           baseName  == sp[2]
       IN  IF f.name = <<>>
           THEN Return(Nil, TRUE)
           ELSE /\ IF parentDir # <<>>
                   THEN stack' = Push([f EXCEPT !.pc = "afterRec",
                                                !.base = baseName],
                                      [Frame("GetOrCreateFolder", parentDir,
                                             f.parent)
                                        EXCEPT !.src = f.src])
                   ELSE stack' = SetTop([f EXCEPT !.pc = AfterParent(f)])
                /\ UNCHANGED <<ret, calls>>
    /\ UNCHANGED <<remote, srv, fs, parked, reqs, faults, visits>>

\* The upload keeps the parent it was called with
UF_AfterRec_KeepParent ==
    /\ Running("UploadFile", "afterRec")
    /\ LET f == Top
       IN  IF ret.err
           THEN Return(Nil, TRUE)
           ELSE /\ stack' = SetTop([f EXCEPT !.pc = AfterParent(f),
                                             !.name = f.base])
                /\ UNCHANGED <<ret, calls>>
    /\ UNCHANGED <<remote, srv, fs, parked, reqs, faults, visits>>

\* After GetOrCreateFolder: parentID and fileName are overwritten, then the
\* error is tested.
UF_AfterRec ==
    /\ Running("UploadFile", "afterRec")
    /\ LET f == Top
       IN  IF ret.err
           THEN Return(Nil, TRUE)
           ELSE /\ stack' = SetTop([f EXCEPT !.pc = AfterParent(f),
                                             !.parent = ret.val,
                                             !.name = f.base])
                /\ UNCHANGED <<ret, calls>>
    /\ UNCHANGED <<remote, srv, fs, parked, reqs, faults, visits>>

\* The overwrite branch: getEntriesByName without a type.  An error is
\* logged and ignored; matches are handed to DeleteEntries, whose error is
\* logged and ignored as well.
UF_Overwrite ==
    /\ Running("UploadFile", "overwrite")
    /\ \E r \in RespsFor("lookup") :
        LET f    == Top
            data == IF Nominal("lookup", r)
                    THEN IndexEntry(f.name, f.parent, "") ELSE <<>>
            res  == getEntriesByName(r, data, f.name, f.parent)
        IN  /\ reqs' = Append(reqs, Req("lookup", f.name, f.parent, "",
                                        res.ids, r, data, Nil, f.src))
            /\ faults' = IF Nominal("lookup", r) THEN faults ELSE faults + 1
            /\ IF ~res.err /\ Len(res.ids) > 0
               THEN stack' = Push([f EXCEPT !.pc = "afterDelete"],
                                  [Frame("DeleteEntries", <<>>, Nil)
                                    EXCEPT !.ids = StrIDs(res.ids),
                                           !.src = f.src])
               ELSE stack' = SetTop([f EXCEPT !.pc = "upload"])
    /\ UNCHANGED <<remote, srv, fs, parked, ret, calls, visits>>

\* A failed deletion ends the call
UF_AfterDelete_Abort ==
    /\ Running("UploadFile", "afterDelete")
    /\ IF ret.err
       THEN Return(Nil, TRUE)
       ELSE /\ stack' = SetTop([Top EXCEPT !.pc = "upload"])
            /\ UNCHANGED <<ret, calls>>
    /\ UNCHANGED <<remote, srv, fs, parked, reqs, faults, visits>>

\* After DeleteEntries: its error is logged and ignored.
UF_AfterDelete ==
    /\ Running("UploadFile", "afterDelete")
    /\ stack' = SetTop([Top EXCEPT !.pc = "upload"])
    /\ UNCHANGED <<remote, srv, fs, parked, ret, calls, reqs, faults, visits>>

\* The upload taking every 2xx status for success
UF_Upload_Any2xx ==
    /\ Running("UploadFile", "upload")
    /\ LET f == Top
       IN  IF ~f.readerOk
           THEN /\ Return(Nil, TRUE)
                /\ UNCHANGED <<remote, reqs, faults>>
           ELSE \E r \in RespsFor("upload") :
                LET newId == Len(remote) + 1
                IN  /\ remote' = IF Applied(r)
                                 THEN Append(remote,
                                        Entry(newId, f.name, f.parent, "file"))
                                 ELSE remote
                    /\ reqs' = Append(reqs, Req("upload", f.name, f.parent,
                                               "", <<>>, r, <<>>,
                                               IF Applied(r) THEN newId
                                               ELSE Nil, f.src))
                    /\ faults' = IF Nominal("upload", r) THEN faults
                                 ELSE faults + 1
                    /\ Return(Nil, ~Applied(r))
    /\ UNCHANGED <<srv, fs, parked, visits>>

\* The upload that reports transport errors only
UF_Upload_IgnoreStatus ==
    /\ Running("UploadFile", "upload")
    /\ LET f == Top
       IN  IF ~f.readerOk
           THEN /\ Return(Nil, TRUE)
                /\ UNCHANGED <<remote, reqs, faults>>
           ELSE \E r \in RespsFor("upload") :
                LET newId == Len(remote) + 1
                IN  /\ remote' = IF Applied(r)
                                 THEN Append(remote,
                                        Entry(newId, f.name, f.parent, "file"))
                                 ELSE remote
                    /\ reqs' = Append(reqs, Req("upload", f.name, f.parent,
                                               "", <<>>, r, <<>>,
                                               IF Applied(r) THEN newId
                                               ELSE Nil, f.src))
                    /\ faults' = IF Nominal("upload", r) THEN faults
                                 ELSE faults + 1
                    /\ Return(Nil, r.transport)
    /\ UNCHANGED <<srv, fs, parked, visits>>

\* The upload reporting the error of the deletion before it
UF_Upload_CleanupError ==
    /\ Running("UploadFile", "upload")
    /\ LET f == Top
       IN  IF ~f.readerOk
           THEN /\ Return(Nil, TRUE)
                /\ UNCHANGED <<remote, reqs, faults>>
           ELSE \E r \in RespsFor("upload") :
                LET newId == Len(remote) + 1
                    ok    == ~r.transport /\ r.status = 201
                IN  /\ remote' = IF Applied(r)
                                 THEN Append(remote,
                                        Entry(newId, f.name, f.parent, "file"))
                                 ELSE remote
                    /\ reqs' = Append(reqs, Req("upload", f.name, f.parent,
                                               "", <<>>, r, <<>>,
                                               IF Applied(r) THEN newId
                                               ELSE Nil, f.src))
                    /\ faults' = IF Nominal("upload", r) THEN faults
                                 ELSE faults + 1
                    /\ Return(Nil, ~ok \/ (f.ow /\ ret.err))
    /\ UNCHANGED <<srv, fs, parked, visits>>

\* The multipart body and the upload request: a reader that fails ends the
\* call before any request; success is status 201.
UF_Upload ==
    /\ Running("UploadFile", "upload")
    /\ LET f == Top
       IN  IF ~f.readerOk
           THEN /\ Return(Nil, TRUE)
                /\ UNCHANGED <<remote, reqs, faults>>
           ELSE \E r \in RespsFor("upload") :
                LET newId == Len(remote) + 1
                    ok    == ~r.transport /\ r.status = 201
                IN  /\ remote' = IF Applied(r)
                                 THEN Append(remote,
                                        Entry(newId, f.name, f.parent, "file"))
                                 ELSE remote
                    /\ reqs' = Append(reqs, Req("upload", f.name, f.parent,
                                               "", <<>>, r, <<>>,
                                               IF Applied(r) THEN newId
                                               ELSE Nil, f.src))
                    /\ faults' = IF Nominal("upload", r) THEN faults
                                 ELSE faults + 1
                    /\ Return(Nil, ~ok)
    /\ UNCHANGED <<srv, fs, parked, visits>>


\* ------------------------------------------------------------ file paths
RECURSIVE FirstSep(_, _)
FirstSep(s, i) ==
    IF i > Len(s) THEN 0 ELSE IF s[i] = "/" THEN i ELSE FirstSep(s, i + 1)

\* The elements of a path between its separators
RECURSIVE Elements(_)
Elements(s) ==
    LET i == FirstSep(s, 1)
    IN  IF i = 0 THEN <<s>>
        ELSE <<SubSeq(s, 1, i - 1)>> \o Elements(SubSeq(s, i + 1, Len(s)))

RECURSIVE JoinSl(_)
JoinSl(es) ==
    IF es = <<>> THEN <<>>
    ELSE IF Len(es) = 1 THEN es[1]
    ELSE es[1] \o Sl \o JoinSl(Tail(es))

\* filepath.Clean: empty and "." elements dropped, ".." resolved, no
\* trailing separator, "." for an empty result
RECURSIVE CleanElems(_, _, _)
CleanElems(es, out, rooted) ==
    IF es = <<>> THEN out
    ELSE LET e == Head(es)
         IN  IF e = <<>> \/ e = <<".">>
             THEN CleanElems(Tail(es), out, rooted)
             ELSE IF e = <<".", ".">>
             THEN IF out # <<>> /\ Last(out) # <<".", ".">>
                  THEN CleanElems(Tail(es), SubSeq(out, 1, Len(out) - 1),
                                  rooted)
                  ELSE IF rooted THEN CleanElems(Tail(es), out, rooted)
                  ELSE CleanElems(Tail(es), Append(out, e), rooted)
             ELSE CleanElems(Tail(es), Append(out, e), rooted)

Clean(path) ==
    LET rooted == path # <<>> /\ path[1] = "/"
        body   == JoinSl(CleanElems(Elements(path), <<>>, rooted))
    IN  IF rooted THEN Sl \o body
        ELSE IF body = <<>> THEN <<".">> ELSE body

\* filepath.Join of two elements: empty elements ignored, the rest joined by
\* a separator and cleaned
Join(a, b) ==
    IF a = <<>> /\ b = <<>> THEN <<>>
    ELSE IF a = <<>> THEN Clean(b)
    ELSE IF b = <<>> THEN Clean(a)
    ELSE Clean(a \o Sl \o b)

\* filepath.Base: the last element, trailing separators removed first
RECURSIVE StripSl(_)
StripSl(s) == IF s # <<>> /\ Last(s) = "/" THEN StripSl(TrimSuffix(s, Sl)) ELSE s

Base(path) ==
    IF path = <<>> THEN <<".">>
    ELSE LET t == StripSl(path)
         IN  IF t = <<>> THEN Sl ELSE Split(t)[2]

\* ------------------------------------------------- names used as inputs
N_x == <<"x">>
N_y == <<"y">>
N_sub == <<"s", "u", "b">>
N_atxt == <<"a", ".", "t", "x", "t">>
N_btxt == <<"b", ".", "t", "x", "t">>
N_root == <<"r", "o", "o", "t">>
N_project == <<"p", "r", "o", "j", "e", "c", "t">>
N_dotgit == <<".", "g", "i", "t">>
N_config == <<"c", "o", "n", "f", "i", "g">>
N_gitlog == <<"g", "i", "t", "l", "o", "g", ".", "t", "x", "t">>
N_big == <<"b", "i", "g", ".", "b", "i", "n">>
N_ztxt == <<"z", ".", "t", "x", "t">>
N_report == <<"r", "e", "p", "o", "r", "t", ".", "p", "d", "f">>
P_x_sub == <<"x", "/", "s", "u", "b">>
P_x_sub_y == <<"x", "/", "s", "u", "b", "/", "y">>
P_sub_sub == <<"s", "u", "b", "/", "s", "u", "b">>
P_lead == <<"/", "s", "u", "b">>
P_trail == <<"s", "u", "b", "/">>
P_double == <<"x", "/", "/", "s", "u", "b">>
P_x_sub_report == <<"x", "/", "s", "u", "b", "/", "r", "e", "p", "o", "r", "t", ".", "p", "d", "f">>
P_sub_report == <<"s", "u", "b", "/", "r", "e", "p", "o", "r", "t", ".", "p", "d", "f">>
P_root_atxt == <<"r", "o", "o", "t", "/", "a", ".", "t", "x", "t">>
P_root_sub == <<"r", "o", "o", "t", "/", "s", "u", "b">>
P_root_sub_btxt == <<"r", "o", "o", "t", "/", "s", "u", "b", "/", "b", ".", "t", "x", "t">>
P_root_big == <<"r", "o", "o", "t", "/", "b", "i", "g", ".", "b", "i", "n">>
P_root_ztxt == <<"r", "o", "o", "t", "/", "z", ".", "t", "x", "t">>
P_root_sub_sub == <<"r", "o", "o", "t", "/", "s", "u", "b", "/", "s", "u", "b">>
P_root_sub_ztxt == <<"r", "o", "o", "t", "/", "s", "u", "b", "/", "z", ".", "t", "x", "t">>
P_root_btxt == <<"r", "o", "o", "t", "/", "b", ".", "t", "x", "t">>
P_project_dotgit == <<"p", "r", "o", "j", "e", "c", "t", "/", ".", "g", "i", "t">>
P_project_dotgit_config == <<"p", "r", "o", "j", "e", "c", "t", "/", ".", "g", "i", "t", "/", "c", "o", "n", "f", "i", "g">>
P_project_gitlog == <<"p", "r", "o", "j", "e", "c", "t", "/", "g", "i", "t", "l", "o", "g", ".", "t", "x", "t">>

\* ------------------------------------------------------ local file system
\* fs maps a clean path to its node: a directory with its sorted listing,
\* or a file with its size; ok tells whether it can be read or opened.
Dir(entries, ok) ==
    [isDir |-> TRUE, ok |-> ok, statOk |-> TRUE, size |-> 0,
     entries |-> entries]

File(size, ok, statOk) ==
    [isDir |-> FALSE, ok |-> ok, statOk |-> statOk, size |-> size,
     entries |-> <<>>]

\* The ceiling counted in decimal megabytes
SizeLimit_Decimal == 100 * 1000 * 1000

\* 100*1024*1024, the ceiling of the size test
SizeLimit == 100 * 1024 * 1024

\* A directory whose own reported size lies above the ceiling
BigDir(entries) == [Dir(entries, TRUE) EXCEPT !.size = SizeLimit + 1]

NoFS == [p \in {} |-> Dir(<<>>, TRUE)]

\* root/{a.txt, sub/b.txt}, the directory sub reporting a large size
TreePlain ==
    (N_root :> Dir(<<N_atxt, N_sub>>, TRUE)) @@
    (P_root_atxt :> File(5, TRUE, TRUE)) @@
    (P_root_sub :> BigDir(<<N_btxt>>)) @@
    (P_root_sub_btxt :> File(7, TRUE, TRUE))

\* project/{.git/config, gitlog.txt}
TreeGit ==
    (N_project :> Dir(<<N_dotgit, N_gitlog>>, TRUE)) @@
    (P_project_dotgit :> Dir(<<N_config>>, TRUE)) @@
    (P_project_dotgit_config :> File(3, TRUE, TRUE)) @@
    (P_project_gitlog :> File(9, TRUE, TRUE))

\* root/{a.txt at the size limit, big.bin one byte above it, an unreadable
\* directory sub, z.txt}
TreeLimits ==
    (N_root :> Dir(<<N_atxt, N_big, N_sub, N_ztxt>>, TRUE)) @@
    (P_root_atxt :> File(SizeLimit, TRUE, TRUE)) @@
    (P_root_big :> File(SizeLimit + 1, TRUE, TRUE)) @@
    (P_root_sub :> Dir(<<>>, FALSE)) @@
    (P_root_ztxt :> File(1, TRUE, TRUE))

\* root/{a.txt whose Info fails, b.txt that cannot be opened, z.txt}
TreeBroken ==
    (N_root :> Dir(<<N_atxt, N_btxt, N_ztxt>>, TRUE)) @@
    (P_root_atxt :> File(1, TRUE, FALSE)) @@
    (P_root_btxt :> File(1, FALSE, TRUE)) @@
    (P_root_ztxt :> File(1, TRUE, TRUE))

\* root/{sub/{sub/, z.txt}, z.txt}: a directory holding a directory of its
\* own name, and a file name that occurs at two levels
TreeNested ==
    (N_root :> Dir(<<N_sub, N_ztxt>>, TRUE)) @@
    (P_root_sub :> Dir(<<N_sub, N_ztxt>>, TRUE)) @@
    (P_root_sub_sub :> Dir(<<>>, TRUE)) @@
    (P_root_sub_ztxt :> File(2, TRUE, TRUE)) @@
    (P_root_ztxt :> File(4, TRUE, TRUE))

\* The tree the client sees
Files ==
    CASE fs = "plain"  -> TreePlain
      [] fs = "git"    -> TreeGit
      [] fs = "limits" -> TreeLimits
      [] fs = "broken" -> TreeBroken
      [] fs = "nested" -> TreeNested
      [] OTHER         -> NoFS

Exists(path) == Clean(path) \in DOMAIN Files

Node(path) == Files[Clean(path)]

\* The listing handed back last entry first
ReadDir_Reversed(path) ==
    IF Exists(path) /\ Node(path).isDir /\ Node(path).ok
    THEN [entries |-> [i \in 1..Len(Node(path).entries) |->
                         Node(path).entries[Len(Node(path).entries) + 1 - i]],
          err |-> FALSE]
    ELSE [entries |-> <<>>, err |-> TRUE]

\* os.ReadDir
ReadDir(path) ==
    IF Exists(path) /\ Node(path).isDir /\ Node(path).ok
    THEN [entries |-> Node(path).entries, err |-> FALSE]
    ELSE [entries |-> <<>>, err |-> TRUE]

\* os.Open
CanOpen(path) == Exists(path) /\ Node(path).ok

\* An entry of the walk record
Visit(path, what) == [path |-> path, what |-> what, at |-> Len(reqs),
                      call |-> stack[1].call]

\* ---------------------------------------------------- UploadFileFromPath
\* os.Open, then UploadFile with the base name of the path.
UFP_Start ==
    /\ Running("UploadFileFromPath", "start")
    /\ LET f == Top
       IN  IF ~CanOpen(f.path)
           THEN /\ Return(Nil, TRUE)
                /\ visits' = Append(visits, Visit(f.path, "noopen"))
           ELSE /\ stack' = SetTop([Frame("UploadFile", Base(f.path),
                                          f.parent)
                                     EXCEPT !.ow = f.ow, !.src = f.src])
                /\ UNCHANGED <<ret, calls, visits>>
    /\ UNCHANGED <<remote, srv, fs, parked, reqs, faults>>

\* --------------------------------------------------------- shouldExclude
\* A pattern excludes only the path equal to it
shouldExclude_Exact(path, excludePatterns) ==
    \E n \in 1..Len(excludePatterns) : excludePatterns[n] = path

\* A pattern is looked for in the name of the entry alone
shouldExclude_Base(path, excludePatterns) ==
    \E n \in 1..Len(excludePatterns) :
        Contains(Base(path), excludePatterns[n])

RECURSIVE shouldExclude(_, _)
shouldExclude(path, excludePatterns) ==
    IF excludePatterns = <<>> THEN FALSE
    ELSE IF Contains(path, Head(excludePatterns)) THEN TRUE
    ELSE shouldExclude(path, Tail(excludePatterns))

\* -------------------------------------------------------- UploadDirectory
DefaultExcludes ==
    << <<".", "g", "i", "t">>,
       <<"_", "_", "p", "y", "c", "a", "c", "h", "e", "_", "_">>,
       <<".", "D", "S", "_", "S", "t", "o", "r", "e">>,
       <<".", "e", "n", "v">>,
       <<"v", "e", "n", "v">>,
       <<"n", "o", "d", "e", "_", "m", "o", "d", "u", "l", "e", "s">> >>

\* Entry of UploadDirectory: the default patterns and os.ReadDir.
UD_Start ==
    /\ Running("UploadDirectory", "start")
    /\ LET f  == Top
           rd == ReadDir(f.path)
       IN  IF rd.err
           THEN /\ Return(Nil, TRUE)
                /\ visits' = Append(visits, Visit(f.path, "unreadable"))
           ELSE /\ stack' = SetTop([f EXCEPT
                                      !.pc = "loop", !.idx = 1,
                                      !.entries = rd.entries,
                                      !.pats = IF f.patsNil
                                               THEN DefaultExcludes
                                               ELSE f.pats,
                                      !.patsNil = FALSE])
                /\ UNCHANGED <<ret, calls, visits>>
    /\ UNCHANGED <<remote, srv, fs, parked, reqs, faults>>

\* One iteration of the loop over the entries, up to the call it makes.
UD_Loop ==
    /\ Running("UploadDirectory", "loop")
    /\ LET f == Top
       IN  IF f.idx > Len(f.entries)
           THEN /\ Return(Nil, FALSE)
                /\ UNCHANGED visits
           ELSE LET entryName == f.entries[f.idx]
                    itemPath  == Join(f.path, entryName)
                    node      == Node(itemPath)
                    skip(why) ==
                        /\ stack' = SetTop([f EXCEPT !.idx = @ + 1])
                        /\ visits' = Append(visits, Visit(itemPath, why))
                IN  /\ IF shouldExclude(itemPath, f.pats)
                       THEN skip("excluded")
                       ELSE IF ~node.isDir /\ ~node.statOk
                       THEN skip("nostat")
                       ELSE IF ~node.isDir /\ node.size > SizeLimit
                       THEN skip("large")
                       ELSE IF node.isDir
                       THEN /\ stack' =
                                Push([f EXCEPT !.pc = "afterFolder",
                                               !.src = itemPath],
                                     [Frame("GetOrCreateFolder", entryName,
                                            f.parent)
                                       EXCEPT !.src = itemPath])
                            /\ visits' = Append(visits,
                                                Visit(itemPath, "dir"))
                       ELSE /\ stack' =
                                Push([f EXCEPT !.pc = "afterUpload",
                                               !.src = itemPath],
                                     [Frame("UploadFileFromPath", <<>>,
                                            f.parent)
                                       EXCEPT !.path = itemPath,
                                              !.ow = TRUE,
                                              !.src = itemPath])
                            /\ visits' = Append(visits,
                                                Visit(itemPath, "file"))
                    /\ UNCHANGED <<ret, calls>>
    /\ UNCHANGED <<remote, srv, fs, parked, reqs, faults>>

\* The directory is walked with the parent of the enclosing directory
UD_AfterFolder_KeepParent ==
    /\ Running("UploadDirectory", "afterFolder")
    /\ LET f == Top
       IN  IF ret.err
           THEN Return(Nil, TRUE)
           ELSE /\ stack' = Push([f EXCEPT !.pc = "afterWalk"],
                                 [Frame("UploadDirectory", <<>>, f.parent)
                                   EXCEPT !.path = f.src, !.pats = f.pats,
                                          !.src = f.src])
                /\ UNCHANGED <<ret, calls>>
    /\ UNCHANGED <<remote, srv, fs, parked, reqs, faults, visits>>

\* After GetOrCreateFolder: an error is returned, otherwise the directory is
\* walked with the folder as parent.
UD_AfterFolder ==
    /\ Running("UploadDirectory", "afterFolder")
    /\ LET f == Top
       IN  IF ret.err
           THEN Return(Nil, TRUE)
           ELSE /\ stack' = Push([f EXCEPT !.pc = "afterWalk"],
                                 [Frame("UploadDirectory", <<>>, ret.val)
                                   EXCEPT !.path = f.src, !.pats = f.pats,
                                          !.src = f.src])
                /\ UNCHANGED <<ret, calls>>
    /\ UNCHANGED <<remote, srv, fs, parked, reqs, faults, visits>>

\* After the recursive UploadDirectory.
UD_AfterWalk ==
    /\ Running("UploadDirectory", "afterWalk")
    /\ LET f == Top
       IN  IF ret.err
           THEN Return(Nil, TRUE)
           ELSE /\ stack' = SetTop([f EXCEPT !.pc = "loop", !.idx = @ + 1])
                /\ UNCHANGED <<ret, calls>>
    /\ UNCHANGED <<remote, srv, fs, parked, reqs, faults, visits>>

\* The walk goes on after a failed upload
UD_AfterUpload_Continue ==
    /\ Running("UploadDirectory", "afterUpload")
    /\ stack' = SetTop([Top EXCEPT !.pc = "sleep"])
    /\ UNCHANGED <<remote, srv, fs, parked, ret, calls, reqs, faults, visits>>

\* The next entry is taken up without a pause
UD_AfterUpload_NoPause ==
    /\ Running("UploadDirectory", "afterUpload")
    /\ LET f == Top
       IN  IF ret.err
           THEN Return(Nil, TRUE)
           ELSE /\ stack' = SetTop([f EXCEPT !.pc = "loop", !.idx = @ + 1])
                /\ UNCHANGED <<ret, calls>>
    /\ UNCHANGED <<remote, srv, fs, parked, reqs, faults, visits>>

\* After UploadFileFromPath: an error is returned at once, without the pause.
UD_AfterUpload ==
    /\ Running("UploadDirectory", "afterUpload")
    /\ LET f == Top
       IN  IF ret.err
           THEN Return(Nil, TRUE)
           ELSE /\ stack' = SetTop([f EXCEPT !.pc = "sleep"])
                /\ UNCHANGED <<ret, calls>>
    /\ UNCHANGED <<remote, srv, fs, parked, reqs, faults, visits>>

\* time.Sleep(500 * time.Millisecond), then the next entry.
UD_Sleep ==
    /\ Running("UploadDirectory", "sleep")
    /\ LET f == Top
       IN  /\ stack' = SetTop([f EXCEPT !.pc = "loop", !.idx = @ + 1])
           /\ visits' = Append(visits, Visit(f.src, "sleep"))
    /\ UNCHANGED <<remote, srv, fs, parked, ret, calls, reqs, faults>>


\* -------------------------------------------------------------- scenarios
\* Remote contents at the start: nothing, or a folder x at the root holding a
\* folder sub and the files a.txt and report.pdf.
EmptyRemote == <<>>

NestedRemote ==
    << Entry(1, N_x, 0, "folder"),
       Entry(2, N_sub, 1, "folder"),
       Entry(3, N_atxt, 1, "file"),
       Entry(4, N_report, 1, "file") >>

Remotes == {EmptyRemote, NestedRemote}

\* Parents a caller can name: none, or a folder of the initial remote.
ParentsOf(rem) ==
    {Nil} \cup {rem[i].id : i \in {j \in 1..Len(rem) : rem[j].typ = "folder"}}

Servers == {[honorParent |-> TRUE,  newestFirst |-> FALSE],
            [honorParent |-> FALSE, newestFirst |-> TRUE]}

\* The directory a tree is uploaded from
RootOf(tree) == IF tree = "git" THEN N_project ELSE N_root

\* ------------------------------------------------------- top-level calls
Idle == stack = <<>> /\ Len(calls) < MaxCalls

CallRec(f) ==
    [op |-> f.fn, name |-> f.name, parent |-> f.parent, ow |-> f.ow,
     readerOk |-> f.readerOk, path |-> f.path, patsNil |-> f.patsNil,
     pats |-> f.pats, ids |-> f.ids, from |-> Len(reqs), pre |-> remote,
     done |-> FALSE, val |-> Nil, err |-> FALSE]

SameArgs(c, f) ==
    /\ c.op = f.fn /\ c.name = f.name /\ c.parent = f.parent
    /\ c.ow = f.ow /\ c.readerOk = f.readerOk /\ c.path = f.path
    /\ c.patsNil = f.patsNil /\ c.pats = f.pats /\ c.ids = f.ids

\* A caller invokes f; every call after the first repeats the first one.
\* The bottom frame carries the number of the call.
Invoke(f) ==
    /\ Idle
    /\ IF calls = <<>> THEN TRUE ELSE SameArgs(calls[1], f)
    /\ stack' = <<[f EXCEPT !.call = Len(calls) + 1]>>
    /\ calls' = Append(calls, CallRec(f))
    /\ UNCHANGED <<remote, srv, fs, parked, ret, reqs, faults, visits>>

FolderNames ==
    {<<>>, N_sub, P_x_sub, P_x_sub_y, P_sub_sub, P_lead, P_trail, P_double}

CallGetOrCreateFolder ==
    \E name \in FolderNames, parentID \in ParentsOf(remote) \cap {0, 1} :
        Invoke(Frame("GetOrCreateFolder", name, parentID))

FileNames == {<<>>, N_x, N_report, N_atxt, P_sub_report, P_x_sub_report}

CallUploadFile ==
    \E name \in FileNames, parentID \in ParentsOf(remote) \cap {0, 1},
       overwrite \in BOOLEAN, readerOk \in BOOLEAN :
        Invoke([Frame("UploadFile", name, parentID)
                  EXCEPT !.ow = overwrite, !.readerOk = readerOk])

\* Id lists a caller hands to DeleteEntries: one id, or two
DeleteIds == {<< <<"3">> >>, << <<"3">>, <<"4">> >>, << <<"2">>, <<"4">> >>}

CallDeleteEntries ==
    \E ids \in DeleteIds :
        Invoke([Frame("DeleteEntries", <<>>, Nil) EXCEPT !.ids = ids])

\* Pattern lists a caller passes instead of nil, tried on the git tree: no
\* pattern, the one pattern git, or the one pattern roj, which occurs in the
\* name of the uploaded directory itself
PatternLists ==
    IF fs = "git"
    THEN {<<>>, << <<"g", "i", "t">> >>, << <<"r", "o", "j">> >>}
    ELSE {}

CallUploadDirectory ==
    \E parentID \in ParentsOf(remote) \cap {0, 1} :
        \/ Invoke([Frame("UploadDirectory", <<>>, parentID)
                     EXCEPT !.path = RootOf(fs), !.patsNil = TRUE])
        \/ \E pats \in PatternLists :
              Invoke([Frame("UploadDirectory", <<>>, parentID)
                        EXCEPT !.path = RootOf(fs), !.pats = pats])

\* -------------------------------------------------------- specifications
InitCommon ==
    /\ remote \in Remotes
    /\ srv \in Servers
    /\ stack = <<>>
    /\ ret = [val |-> Nil, err |-> FALSE]
    /\ reqs = <<>>
    /\ calls = <<>>
    /\ faults = 0
    /\ visits = <<>>
    /\ parked = [stack |-> <<>>, ret |-> [val |-> Nil, err |-> FALSE]]

\* Steps of GetOrCreateFolder and UploadFile for a name without a parent
\* directory, and the steps a parent directory adds
GOCF_Flat == GOCF_Start \/ GOCF_Lookup \/ GOCF_Create

GOCF_Step == GOCF_Flat \/ GOCF_AfterRec

UF_Flat ==
    \/ UF_Start \/ UF_Overwrite \/ UF_AfterDelete \/ UF_Upload
    \/ DE_Request

UF_Step == UF_Flat \/ UF_AfterRec

UD_Step ==
    \/ UD_Start \/ UD_Loop \/ UD_AfterFolder \/ UD_AfterWalk
    \/ UD_AfterUpload \/ UD_Sleep \/ UFP_Start

\* GetOrCreateFolder called directly
InitFolder == InitCommon /\ fs = "none"
NextFolder == CallGetOrCreateFolder \/ GOCF_Step
SpecFolder == InitFolder /\ [][NextFolder]_vars

\* UploadFile called directly
InitFile == InitCommon /\ fs = "none"
NextFile == CallUploadFile \/ UF_Step \/ GOCF_Step
SpecFile == InitFile /\ [][NextFile]_vars

\* GetOrCreateFolder, UploadFile or DeleteEntries called directly
InitDirect == InitCommon /\ fs = "none"
NextDirect ==
    \/ CallGetOrCreateFolder \/ CallUploadFile \/ CallDeleteEntries
    \/ UF_Step \/ GOCF_Step
SpecDirect == InitDirect /\ [][NextDirect]_vars

\* Two callers on two goroutines: the running goroutine is set aside before
\* a remote request (or when it has nothing to run) and the other one, or a
\* new call, runs.
Yield ==
    /\ IF stack = <<>> THEN parked.stack # <<>>
       ELSE /\ Top.pc \in {"lookup", "create"}
            /\ parked.stack # <<>> \/ Len(calls) < MaxCalls
    /\ stack' = parked.stack
    /\ ret' = parked.ret
    /\ parked' = [stack |-> stack, ret |-> ret]
    /\ UNCHANGED <<remote, srv, fs, reqs, calls, faults, visits>>

\* The name resolved by concurrent callers
RaceNames == {N_sub}

GoGetOrCreateFolder ==
    \E name \in RaceNames, parentID \in ParentsOf(remote) \cap {0, 1} :
        Invoke(Frame("GetOrCreateFolder", name, parentID))

\* GetOrCreateFolder called from two goroutines
InitRace == InitCommon /\ fs = "none"
NextRace == GoGetOrCreateFolder \/ GOCF_Flat \/ Yield
SpecRace == InitRace /\ [][NextRace]_vars

\* A directory synchronised again and again: UploadDirectory with the
\* default patterns, over the nested tree, to a remote that holds entries
CallSync ==
    \E parentID \in ParentsOf(remote) \cap {0, 1} :
        Invoke([Frame("UploadDirectory", <<>>, parentID)
                  EXCEPT !.path = RootOf(fs), !.patsNil = TRUE])

InitSync == InitCommon /\ fs = "nested" /\ remote = NestedRemote
NextSync == CallSync \/ UD_Step \/ UF_Flat \/ GOCF_Flat
SpecSync == InitSync /\ [][NextSync]_vars

\* The same over the plain tree
InitPlain == InitCommon /\ fs = "plain"
SpecPlain == InitPlain /\ [][NextSync]_vars

\* The same over the trees with entries that are passed over or cannot be
\* read
InitSkips == InitCommon /\ fs \in {"limits", "broken"}
SpecSkips == InitSkips /\ [][NextSync]_vars

\* UploadDirectory over the project tree, with the default patterns or with
\* a list of the caller's: the names it passes on are entries of a directory
\* listing and hold no separator
Init == InitCommon /\ fs = "git"
Next == CallUploadDirectory \/ UD_Step \/ UF_Flat \/ GOCF_Flat
Spec == Init /\ [][Next]_vars


\* ------------------------------------------------- vocabulary of the claims
GOCF == "GetOrCreateFolder"

\* Indices of the requests issued during the k-th top-level call
ReqsOf(k) == {i \in 1..Len(reqs) : reqs[i].call = k}

CreatesOf(k) == {i \in ReqsOf(k) : reqs[i].kind = "create"}

\* The non-empty elements of a path
Segments(name) == SelectSeq(Elements(name), LAMBDA e : e # <<>>)

\* A name made of non-empty segments joined by single separators
WellFormed(name) == name # <<>> /\ Segments(name) = Elements(name)

\* The live folders of rem reached from one of the folders in from by the
\* chain of names segs (0 stands for the root)
RECURSIVE Resolve(_, _, _)
Resolve(rem, from, segs) ==
    IF segs = <<>> THEN from
    ELSE Resolve(rem,
                 {rem[i].id : i \in {j \in 1..Len(rem) :
                        /\ rem[j].live /\ rem[j].typ = "folder"
                        /\ rem[j].name = Head(segs)
                        /\ rem[j].parent \in from}},
                 Tail(segs))

\* Number of trailing segments of segs that do not exist in rem below parent
Missing(rem, parentID, segs) ==
    LET present == {n \in 0..Len(segs) :
                      Resolve(rem, {parentID}, SubSeq(segs, 1, n)) # {}}
    IN  Len(segs) - (CHOOSE n \in present : \A m \in present : m <= n)

\* C1: two sequential GetOrCreateFolder calls with the same (name, parentID),
\* the folder being absent before the first and every response nominal,
\* return the same id; the first issues one creation per missing segment and
\* the second issues none.
C1_Idempotent ==
    (/\ Len(calls) = 2 /\ calls[2].done /\ calls[1].op = GOCF
     /\ faults = 0 /\ calls[1].name # <<>>
     /\ Resolve(calls[1].pre, {calls[1].parent},
                Segments(calls[1].name)) = {})
    => /\ ~calls[1].err /\ ~calls[2].err
       /\ calls[1].val = calls[2].val
       /\ Cardinality(CreatesOf(1)) =
            Missing(calls[1].pre, calls[1].parent, Segments(calls[1].name))
       /\ CreatesOf(2) = {}

\* The same statement for a non-nil parent and a well-formed name
C1_WithParent ==
    (calls # <<>> /\ calls[1].parent # Nil /\ WellFormed(calls[1].name))
    => C1_Idempotent


\* Number of lookups among the requests of call k up to request i: the
\* position of the segment request i is about
SegmentOf(k, i) ==
    Cardinality({j \in ReqsOf(k) : j <= i /\ reqs[j].kind = "lookup"})

\* C2: in GetOrCreateFolder(s1/.../sn, P) the requests go through the
\* segments from left to right; those for s1 carry P, those for s(i+1) carry
\* the id obtained for s(i), and the id returned is the one obtained for sn.
C2_LeftToRight ==
    \A k \in 1..Len(calls) :
        (calls[k].op = GOCF /\ WellFormed(calls[k].name)) =>
        LET segs == Segments(calls[k].name)
            P    == calls[k].parent
        IN  /\ \A i \in ReqsOf(k) :
                LET n == SegmentOf(k, i)
                IN  /\ n \in 1..Len(segs)
                    /\ reqs[i].name = segs[n]
                    /\ reqs[i].kind \in {"lookup", "create"}
                    /\ reqs[i].kind = "create" =>
                          /\ i - 1 \in ReqsOf(k)
                          /\ reqs[i - 1].kind = "lookup"
                          /\ reqs[i - 1].got = Nil
                          /\ reqs[i].parent = reqs[i - 1].parent
                    /\ (reqs[i].kind = "lookup" /\ n = 1) =>
                          /\ reqs[i].parent = P
                          /\ i - 1 \notin ReqsOf(k)
                    /\ (reqs[i].kind = "lookup" /\ n > 1) =>
                          /\ i - 1 \in ReqsOf(k)
                          /\ reqs[i - 1].got # Nil
                          /\ reqs[i].parent = reqs[i - 1].got
            /\ (calls[k].done /\ ~calls[k].err) =>
                  /\ ReqsOf(k) # {}
                  /\ LET last == CHOOSE i \in ReqsOf(k) :
                                    \A j \in ReqsOf(k) : j <= i
                     IN  /\ SegmentOf(k, last) = Len(segs)
                         /\ calls[k].val = reqs[last].got

\* A three-segment path resolved partly by lookup and partly by creation
C2_Witness ==
    \E k \in 1..Len(calls) :
        /\ calls[k].op = GOCF /\ calls[k].name = P_x_sub_y
        /\ calls[k].done /\ ~calls[k].err
        /\ \E i, j \in ReqsOf(k) :
              /\ i < j
              /\ reqs[i].kind = "lookup" /\ reqs[i].got # Nil
              /\ reqs[j].kind = "create" /\ reqs[j].name = N_y


UD == "UploadDirectory"

\* sub occurs in s at some offset
Occurs(sub, s) ==
    \E i \in 0..(Len(s) - Len(sub)) : SubSeq(s, i + 1, i + Len(sub)) = sub

\* The patterns in force during call k
PatternsOf(k) ==
    IF calls[k].patsNil THEN DefaultExcludes ELSE calls[k].pats

Excluded(k, path) ==
    \E n \in 1..Len(PatternsOf(k)) : Occurs(PatternsOf(k)[n], path)

\* Local paths below the uploaded directory that call k has to mirror
Mirrored(k) ==
    {p \in DOMAIN Files :
        /\ p # calls[k].path
        /\ ~Excluded(k, p)
        /\ Files[p].isDir \/ Files[p].size <= SizeLimit}

\* The local directory holding p, and its elements below the uploaded one
DirOf(p) == TrimSuffix(Split(p)[1], Sl)

RelDir(k, p) ==
    SubSeq(Elements(DirOf(p)), Len(Elements(calls[k].path)) + 1,
           Len(Elements(DirOf(p))))

\* Requests of call k made for the local path p
ReqsFor(k, p) == {i \in ReqsOf(k) : reqs[i].src = p}

\* The remote id call k obtained for the local directory d
DirId(k, d) ==
    IF d = calls[k].path THEN calls[k].parent
    ELSE LET rs == {i \in ReqsFor(k, d) : reqs[i].got # Nil}
         IN  IF rs = {} THEN -1
             ELSE reqs[CHOOSE i \in rs : \A j \in rs : j <= i].got

\* C3: after a successful UploadDirectory every mirrored directory was
\* resolved once under the id of its containing directory, every mirrored
\* file was uploaded once, with overwrite, under the id of its containing
\* directory, and that id is the remote folder whose names from parentID
\* spell the local relative directory.
C3_Mirror ==
    \A k \in 1..Len(calls) :
        (calls[k].op = UD /\ calls[k].done /\ ~calls[k].err) =>
        \A p \in Mirrored(k) :
            IF Files[p].isDir
            THEN /\ Cardinality({i \in ReqsFor(k, p) :
                        reqs[i].kind = "lookup"}) = 1
                 /\ \A i \in ReqsFor(k, p) :
                        reqs[i].parent = DirId(k, DirOf(p))
            ELSE /\ Cardinality({i \in ReqsFor(k, p) :
                        reqs[i].kind = "upload"}) = 1
                 /\ \E i \in ReqsFor(k, p) :
                        reqs[i].kind = "lookup" /\ reqs[i].typ = ""
                 /\ \A i \in ReqsFor(k, p) :
                        reqs[i].kind = "upload" =>
                          /\ reqs[i].parent = DirId(k, DirOf(p))
                          /\ reqs[i].parent \in
                               Resolve(remote, {calls[k].parent},
                                       RelDir(k, p))

\* The same statement for calls with a non-nil parentID
C3_WithParent ==
    (calls # <<>> /\ calls[1].parent # Nil) => C3_Mirror


UF == "UploadFile"

\* The deletion and upload requests of call k, in the order issued
Mutations(k) ==
    SelectSeq(reqs, LAMBDA r : r.call = k /\ r.kind \in {"delete", "upload"})

Kinds(rs) == [i \in 1..Len(rs) |-> rs[i].kind]

\* An entry named as the final element of the file name of call k exists,
\* before the call, in the folder the name of call k leads to
HasConflict(k) ==
    LET c   == calls[k]
        dir == Resolve(c.pre, {c.parent},
                       Segments(TrimSuffix(Split(c.name)[1], Sl)))
    IN  \E i \in 1..Len(c.pre) :
            /\ c.pre[i].live
            /\ c.pre[i].name = Split(c.name)[2]
            /\ c.pre[i].parent \in dir

C5_DeletionScope ==
    \A i \in 1..Len(reqs) :
        reqs[i].kind = "delete" =>
        \A n \in 1..Len(reqs[i].ids) :
            LET e == remote[Atoi(reqs[i].ids[n])]
            IN  /\ e.name = reqs[i - 1].name
                /\ e.parent = reqs[i - 1].parent

\* C6: an id GetOrCreateFolder takes from its lookup names a folder called
\* exactly as the segment and held by the effective parent (the root when
\* that parent is nil), and no creation follows for the segment.
C6_ShortCircuit ==
    \A i \in 1..Len(reqs) :
        (reqs[i].kind = "lookup" /\ reqs[i].typ = "folder"
         /\ reqs[i].got # Nil)
        => /\ remote[reqs[i].got].name = reqs[i].name
           /\ remote[reqs[i].got].parent = reqs[i].parent
           /\ (i + 1 \in ReqsOf(reqs[i].call) =>
                 ~(reqs[i + 1].kind \in {"create", "delete", "upload"}
                   /\ reqs[i + 1].name = reqs[i].name
                   /\ reqs[i + 1].parent = reqs[i].parent))

\* C7: every folder-creation request carries a non-empty name without a
\* separator.
C7_CreatedName ==
    \A i \in 1..Len(reqs) :
        reqs[i].kind = "create" =>
            reqs[i].name # <<>> /\ ~Occurs(Sl, reqs[i].name)

\* C8: a folder lookup that fails is not followed by a creation request, and
\* the call returns an error.
C8_LookupFailure ==
    \A i \in 1..Len(reqs) :
        (reqs[i].kind = "lookup" /\ reqs[i].typ = "folder"
         /\ ~Nominal("lookup", reqs[i].resp))
        => /\ i + 1 \in ReqsOf(reqs[i].call) => reqs[i + 1].kind # "create"
           /\ calls[reqs[i].call].done => calls[reqs[i].call].err


\* A request whose failure ends the walk: an upload not answered 201, or a
\* folder creation not answered 200 with a body that parses
FatalReq(i) ==
    LET r == reqs[i].resp
    IN  \/ reqs[i].kind = "upload" /\ (r.transport \/ r.status # 201)
        \/ reqs[i].kind = "create"
             /\ (r.transport \/ r.status # 200 \/ ~r.bodyOk)

\* A local failure that ends the walk: a directory that cannot be read or a
\* file that cannot be opened
FatalVisit(v) == visits[v].what \in {"unreadable", "noopen"}

VisitsOf(k) == {v \in 1..Len(visits) : visits[v].call = k}

\* C9: in UploadDirectory the first fatal error (failed upload, failed
\* folder resolution, unreadable directory) is followed by no request and no
\* further entry, and the call returns an error; it returns an error only
\* after such a failure.
C9_FailFast ==
    \A k \in 1..Len(calls) :
        calls[k].op = UD =>
        /\ \A i \in ReqsOf(k) :
              FatalReq(i) =>
                /\ \A j \in ReqsOf(k) : j <= i
                /\ \A v \in VisitsOf(k) : visits[v].at < i
                /\ calls[k].done => calls[k].err
        /\ \A v \in VisitsOf(k) :
              FatalVisit(v) =>
                /\ \A j \in ReqsOf(k) : j <= visits[v].at
                /\ \A w \in VisitsOf(k) : w <= v
                /\ calls[k].done => calls[k].err
        /\ (calls[k].done /\ calls[k].err) =>
              \/ \E i \in ReqsOf(k) : FatalReq(i)
              \/ \E v \in VisitsOf(k) : FatalVisit(v)

\* A walk ended by an unreadable subdirectory after an upload, leaving a
\* later entry of the enclosing directory without any request
C9_Witness ==
    \E k \in 1..Len(calls) :
        /\ calls[k].op = UD /\ calls[k].done /\ calls[k].err
        /\ \E v \in VisitsOf(k) :
              visits[v].what = "unreadable" /\ visits[v].path = P_root_sub
        /\ \E i \in ReqsOf(k) : reqs[i].kind = "upload"
        /\ P_root_ztxt \in Mirrored(k)
        /\ ReqsFor(k, P_root_ztxt) = {}

\* Walk records that stand for the entries of a directory listing
EntryVisits ==
    {v \in 1..Len(visits) :
        visits[v].what \in {"excluded", "nostat", "large", "dir", "file"}}

\* C10: UploadDirectory skips an entry as excluded iff a pattern occurs in
\* its path; no request is made for an excluded path and nothing below an
\* excluded directory is visited (the directory the walk starts from is not
\* an entry and is never tested); with .git excluded project/gitlog.txt is
\* uploaded and project/.git/config is not.
\* (visits and reqs grow by one record per step and keep their records, so
\* the first two conjuncts are stated of the newest record of each state.)
C10_Exclusion ==
    /\ Len(visits) \in EntryVisits =>
          LET v == Last(visits)
          IN  /\ v.what = "excluded" <=> Excluded(v.call, v.path)
              /\ \/ DirOf(v.path) = calls[v.call].path
                 \/ ~Excluded(v.call, DirOf(v.path))
    /\ (reqs # <<>> /\ calls[Last(reqs).call].op = UD) =>
          ~Excluded(Last(reqs).call, Last(reqs).src)
    /\ \A k \in 1..Len(calls) :
          (/\ calls[k].op = UD /\ calls[k].done /\ ~calls[k].err
           /\ calls[k].path = N_project /\ calls[k].patsNil)
          => /\ \E i \in ReqsFor(k, P_project_gitlog) :
                    reqs[i].kind = "upload" /\ reqs[i].name = N_gitlog
             /\ ReqsFor(k, P_project_dotgit_config) = {}
             /\ ReqsFor(k, P_project_dotgit) = {}

\* project walked with the default patterns: .git skipped, gitlog.txt sent
C10_Witness ==
    \E k \in 1..Len(calls) :
        /\ calls[k].op = UD /\ calls[k].done /\ ~calls[k].err
        /\ calls[k].path = N_project /\ calls[k].patsNil
        /\ \E v \in VisitsOf(k) :
              visits[v].what = "excluded" /\ visits[v].path = P_project_dotgit
        /\ \E i \in ReqsFor(k, P_project_gitlog) : reqs[i].kind = "upload"


\* The entry listed right after the one at path p in its directory, or <<>>
NextSibling(p) ==
    LET es == Files[DirOf(p)].entries
        n  == CHOOSE i \in 1..Len(es) : es[i] = Split(p)[2]
    IN  IF n < Len(es) THEN DirOf(p) \o Sl \o es[n + 1] ELSE <<>>

Matching(data, name, parentID) ==
    LET keep(e) == e.name = name /\ (parentID # Nil => e.parent = parentID)
        sel     == SelectSeq(data, keep)
    IN  [n \in 1..Len(sel) |-> sel[n].id]

\* C12: for every index response that parses, getEntriesByName returns,
\* without error and in response order, exactly the ids of the entries whose
\* name equals the name asked for and, when a parent was asked for, whose
\* reported parent equals it; the callers work with that result.
C12_PostFilter ==
    \A i \in 1..Len(reqs) :
        (reqs[i].kind = "lookup" /\ Nominal("lookup", reqs[i].resp)) =>
        LET want == Matching(reqs[i].data, reqs[i].name, reqs[i].parent)
        IN  /\ getEntriesByName(reqs[i].resp, reqs[i].data, reqs[i].name,
                                 reqs[i].parent)
                  = [ids |-> want, err |-> FALSE]
            /\ reqs[i].typ = "" => reqs[i].ids = want
            /\ reqs[i].typ = "folder" =>
                  reqs[i].got = IF want = <<>> THEN Nil ELSE want[1]

\* A lookup under a given parent whose response held an entry of another
\* name and an entry of the right name under another parent
C12_Witness ==
    \E i \in 1..Len(reqs) :
        /\ reqs[i].kind = "lookup" /\ Nominal("lookup", reqs[i].resp)
        /\ reqs[i].parent # Nil
        /\ \E a, b \in 1..Len(reqs[i].data) :
              /\ reqs[i].data[a].name # reqs[i].name
              /\ reqs[i].data[b].name = reqs[i].name
              /\ reqs[i].data[b].parent # reqs[i].parent


\* What getEntriesByName made of the lookup request i
LookupResult(i) ==
    getEntriesByName(reqs[i].resp, reqs[i].data, reqs[i].name, reqs[i].parent)

\* C13 as stated: the lookup returns an error exactly when the transport
\* fails or the body does not parse, whatever the status.
C13_Original ==
    \A i \in 1..Len(reqs) :
        reqs[i].kind = "lookup" =>
            (LookupResult(i).err <=>
                (reqs[i].resp.transport \/ ~reqs[i].resp.bodyOk))

\* C13: the lookup returns an error exactly when the transport fails, the
\* status is not 200 or the body does not parse; otherwise it returns the
\* matches, an empty list when nothing matches.
C13_Classification ==
    \A i \in 1..Len(reqs) :
        reqs[i].kind = "lookup" =>
        LET r == reqs[i].resp
        IN  /\ LookupResult(i).err <=>
                  (r.transport \/ r.status # 200 \/ ~r.bodyOk)
            /\ LookupResult(i).err => LookupResult(i).ids = <<>>
            /\ (~LookupResult(i).err
                 /\ Matching(reqs[i].data, reqs[i].name, reqs[i].parent)
                      = <<>>)
                => LookupResult(i).ids = <<>>
            /\ reqs[i].typ = "" => reqs[i].ids = LookupResult(i).ids
            /\ reqs[i].typ = "folder" =>
                  (reqs[i].got = Nil <=> LookupResult(i).ids = <<>>)

\* A lookup answered with status 500, and a lookup answered with entries of
\* which none matched
C13_Witness ==
    /\ \E i \in 1..Len(reqs) :
          reqs[i].kind = "lookup" /\ reqs[i].resp = OkResp(500)
    /\ \E j \in 1..Len(reqs) :
          /\ reqs[j].kind = "lookup" /\ Nominal("lookup", reqs[j].resp)
          /\ reqs[j].data # <<>>
          /\ LookupResult(j) = [ids |-> <<>>, err |-> FALSE]


\* C14: GetOrCreateFolder with an empty name and UploadFile with an empty
\* file name return an error, issue no request and leave the remote as it
\* was.
C14_EmptyName ==
    \A k \in 1..Len(calls) :
        (calls[k].op \in {GOCF, UF} /\ calls[k].name = <<>>) =>
            /\ ReqsOf(k) = {}
            /\ calls[k].done => (calls[k].err /\ calls[k].val = Nil)
            /\ k = Len(calls) => remote = calls[k].pre
            /\ k < Len(calls) => calls[k + 1].pre = calls[k].pre

\* GetOrCreateFolder("") returned, against a remote that holds entries
C14_Witness ==
    \E k \in 1..Len(calls) :
        /\ calls[k].op = GOCF /\ calls[k].name = <<>>
        /\ calls[k].done /\ calls[k].err
        /\ remote = NestedRemote


\* Requests of call k that resolve folders, and its other requests
ResolutionReqs(k) ==
    {i \in ReqsOf(k) :
        \/ reqs[i].kind = "create"
        \/ reqs[i].kind = "lookup" /\ reqs[i].typ = "folder"}

FileReqs(k) == ReqsOf(k) \ ResolutionReqs(k)

\* C15: UploadFile with a name dir/.../base resolves dir from the given
\* parentID, segment by segment, before any overwrite lookup, deletion or
\* upload; the overwrite lookup and the upload carry the id resolved for dir
\* and the name base; when the resolution fails the call returns an error
\* and issues none of them (stated of the newest call).
C15_PathShaped ==
    \A k \in {Len(calls)} \ {0} :
        (/\ calls[k].op = UF /\ WellFormed(calls[k].name)
         /\ Len(Segments(calls[k].name)) > 1) =>
        LET segs == Segments(calls[k].name)
            dir  == SubSeq(segs, 1, Len(segs) - 1)
            base == Last(segs)
            res  == ResolutionReqs(k)
            last == CHOOSE i \in res : \A j \in res : j <= i
        IN  /\ \A i \in res : \A j \in FileReqs(k) : i < j
            /\ \A i \in res :
                  LET n == Cardinality({j \in res : j <= i
                                          /\ reqs[j].kind = "lookup"})
                  IN  /\ n \in 1..Len(dir)
                      /\ reqs[i].name = dir[n]
                      /\ (n = 1) => reqs[i].parent = calls[k].parent
                      /\ (n > 1 /\ reqs[i].kind = "lookup") =>
                            reqs[i].parent = reqs[i - 1].got
            /\ calls[k].done => res # {}
            /\ FileReqs(k) # {} =>
                  /\ Cardinality({j \in res : reqs[j].kind = "lookup"})
                        = Len(dir)
                  /\ reqs[last].got # Nil
                  /\ \A j \in FileReqs(k) :
                        reqs[j].kind \in {"lookup", "upload"} =>
                            /\ reqs[j].name = base
                            /\ reqs[j].parent = reqs[last].got
            /\ (res # {} /\ FatalReq(last)) =>
                  /\ FileReqs(k) = {}
                  /\ calls[k].done => calls[k].err

\* sub/report.pdf uploaded with overwrite: sub created, then the lookup and
\* the upload of report.pdf under the id of the new folder
C15_Witness ==
    \E k \in 1..Len(calls) :
        /\ calls[k].op = UF /\ calls[k].name = P_sub_report
        /\ calls[k].ow /\ calls[k].done /\ ~calls[k].err
        /\ \E i, j, u \in ReqsOf(k) :
              /\ i < j /\ j < u
              /\ reqs[i].kind = "create" /\ reqs[i].got # Nil
              /\ reqs[i].got # calls[k].parent
              /\ reqs[j].kind = "lookup" /\ reqs[j].typ = ""
              /\ reqs[j].name = N_report /\ reqs[j].parent = reqs[i].got
              /\ reqs[u].kind = "upload"
              /\ reqs[u].name = N_report /\ reqs[u].parent = reqs[i].got

\* x/sub/report.pdf whose folder could not be created: an error and no
\* request for the file
C15_FailedResolution ==
    \E k \in 1..Len(calls) :
        /\ calls[k].op = UF /\ Len(Segments(calls[k].name)) > 1
        /\ calls[k].done /\ calls[k].err
        /\ \E i \in ResolutionReqs(k) : FatalReq(i)
        /\ FileReqs(k) = {}


\* The client takes the answer to request i for a failure
Failed(i) ==
    LET r == reqs[i].resp
    IN  \/ r.transport
        \/ r.status # SuccessStatus(reqs[i].kind)
        \/ reqs[i].kind \in {"lookup", "create"} /\ ~r.bodyOk

\* C16: in UploadFile a failed deletion is ignored and the upload follows;
\* any other failed request, the overwrite lookup included, ends the call
\* with an error and without a further request.
C16_OnlyDeletionSwallowed ==
    \A k \in 1..Len(calls) : \A i \in ReqsOf(k) :
        (calls[k].op = UF /\ Failed(i)) =>
            IF reqs[i].kind = "delete"
            THEN (calls[k].done /\ calls[k].readerOk) =>
                    (i + 1 \in ReqsOf(k) /\ reqs[i + 1].kind = "upload")
            ELSE /\ \A j \in ReqsOf(k) : j <= i
                 /\ calls[k].done => calls[k].err


UploadsOf(k) == {i \in ReqsOf(k) : reqs[i].kind = "upload"}

\* C17: UploadFile issues at most one upload request, as its last request,
\* and exactly one once the name is accepted, the parent resolved and the
\* content read; it returns success iff that request was answered with
\* status 201, and an error after a transport failure or any other status.
C17_UploadResult ==
    \A k \in 1..Len(calls) :
        (calls[k].op = UF /\ calls[k].done) =>
            /\ Cardinality(UploadsOf(k)) <= 1
            /\ \A i \in UploadsOf(k) : \A j \in ReqsOf(k) : j <= i
            /\ (/\ calls[k].name # <<>> /\ calls[k].readerOk
                 /\ \A i \in ResolutionReqs(k) :
                        reqs[i].kind = "create" => ~FatalReq(i))
                => Cardinality(UploadsOf(k)) = 1
            /\ ~calls[k].err <=>
                  \E i \in UploadsOf(k) :
                      ~reqs[i].resp.transport /\ reqs[i].resp.status = 201

\* An upload answered with status 200: the call returned an error and issued
\* no second upload
C17_Witness ==
    \E k \in 1..Len(calls) :
        /\ calls[k].op = UF /\ calls[k].done /\ calls[k].err
        /\ \E i \in UploadsOf(k) : reqs[i].resp = OkResp(200)
        /\ Cardinality(UploadsOf(k)) = 1


\* C18: in GetOrCreateFolder a lookup that yields no folder is followed by
\* exactly one creation request for the same segment and parent; answered
\* with status 200 and a body that parses it yields the id of the new
\* folder, which the next segment takes as parent or the call returns; any
\* other answer ends the call with an error and without a further request.
C18_CreationResult ==
    \A k \in 1..Len(calls) : \A i \in ReqsOf(k) :
        (/\ calls[k].op = GOCF
         /\ reqs[i].kind = "lookup" /\ reqs[i].got = Nil
         /\ (calls[k].done \/ i < Len(reqs))) =>
        LET c == reqs[i + 1]
            r == c.resp
        IN  /\ i + 1 \in ReqsOf(k)
            /\ c.kind = "create"
            /\ c.name = reqs[i].name /\ c.parent = reqs[i].parent
            /\ IF ~r.transport /\ r.status = 200 /\ r.bodyOk
               THEN /\ c.got # Nil
                    /\ remote[c.got].name = c.name
                    /\ remote[c.got].parent = c.parent
                    /\ remote[c.got].typ = "folder"
                    /\ \A j \in 1..Len(calls[k].pre) : j # c.got
                    /\ i + 2 \in ReqsOf(k) =>
                          /\ reqs[i + 2].kind = "lookup"
                          /\ reqs[i + 2].parent = c.got
                    /\ (calls[k].done /\ i + 2 \notin ReqsOf(k)) =>
                          (~calls[k].err /\ calls[k].val = c.got)
               ELSE /\ c.got = Nil
                    /\ i + 2 \notin ReqsOf(k)
                    /\ calls[k].done => calls[k].err

\* x/sub/y on an empty remote: the creation of x answered with status 201,
\* an error, and nothing asked about sub or y
C18_Witness ==
    \E k \in 1..Len(calls) :
        /\ calls[k].op = GOCF /\ calls[k].name = P_x_sub_y
        /\ calls[k].done /\ calls[k].err
        /\ \E i \in ReqsOf(k) :
              /\ reqs[i].kind = "create" /\ reqs[i].name = N_x
              /\ reqs[i].resp = OkResp(201)
              /\ \A j \in ReqsOf(k) : j <= i


DE == "DeleteEntries"

\* C19: DeleteEntries(ids) issues one deletion request with all the ids and
\* the non-permanent value of the delete flag, and returns success iff the
\* status is 200; the entries a 2xx answer removed stay on the remote as
\* trashed entries.
C19_DeleteEntries ==
    /\ \A i \in 1..Len(reqs) :
          reqs[i].kind = "delete" =>
            /\ ~reqs[i].forever
            /\ Applied(reqs[i].resp) =>
                  \A n \in 1..Len(reqs[i].ids) :
                      Atoi(reqs[i].ids[n]) \in 1..Len(remote) =>
                          /\ ~remote[Atoi(reqs[i].ids[n])].live
                          /\ remote[Atoi(reqs[i].ids[n])].id
                                = Atoi(reqs[i].ids[n])
    /\ \A k \in 1..Len(calls) :
          (calls[k].op = DE /\ calls[k].done) =>
            /\ Cardinality(ReqsOf(k)) = 1
            /\ \A i \in ReqsOf(k) :
                  /\ reqs[i].kind = "delete"
                  /\ reqs[i].ids = calls[k].ids
                  /\ ~calls[k].err <=>
                        (~reqs[i].resp.transport /\ reqs[i].resp.status = 200)

\* DeleteEntries of two ids answered with status 201: one request with both
\* ids, and an error
C19_Witness ==
    \E k \in 1..Len(calls) :
        /\ calls[k].op = DE /\ calls[k].done /\ calls[k].err
        /\ Len(calls[k].ids) = 2
        /\ \E i \in ReqsOf(k) :
              reqs[i].resp = OkResp(201) /\ Len(reqs[i].ids) = 2


\* C20: UploadFile without overwrite issues no lookup for the file name and
\* no deletion; a deletion request of UploadFile comes right after an
\* overwrite lookup that returned at least one match, in a call with
\* overwrite; GetOrCreateFolder issues lookups and creations only.
C20_NoDeletionWithoutOverwrite ==
    /\ \A k \in 1..Len(calls) :
          /\ (calls[k].op = UF /\ ~calls[k].ow) =>
                \A i \in FileReqs(k) : reqs[i].kind = "upload"
          /\ calls[k].op = GOCF =>
                \A i \in ReqsOf(k) : reqs[i].kind \in {"lookup", "create"}
    /\ \A i \in 1..Len(reqs) :
          (reqs[i].kind = "delete" /\ calls[reqs[i].call].op # DE) =>
            /\ calls[reqs[i].call].op = UF
            /\ calls[reqs[i].call].ow
            /\ i - 1 \in ReqsOf(reqs[i].call)
            /\ reqs[i - 1].kind = "lookup" /\ reqs[i - 1].typ = ""
            /\ ~LookupResult(i - 1).err
            /\ LookupResult(i - 1).ids # <<>>
            /\ reqs[i].ids = StrIDs(LookupResult(i - 1).ids)

\* report.pdf uploaded without overwrite into the folder that holds a
\* report.pdf: one upload, no lookup, no deletion, and the old entry kept
C20_Witness ==
    \E k \in 1..Len(calls) :
        /\ calls[k].op = UF /\ ~calls[k].ow
        /\ calls[k].name = N_report /\ calls[k].parent = 1
        /\ calls[k].done /\ ~calls[k].err
        /\ HasConflict(k)
        /\ Cardinality(ReqsOf(k)) = 1
        /\ remote[4].live /\ remote[4].name = N_report


\* The creation and upload requests of call k, in the order issued
Additions(k) ==
    SelectSeq(reqs, LAMBDA r : r.call = k /\ r.kind \in {"create", "upload"})

\* The walk of root/{a.txt, sub/b.txt} with the default patterns and a nil
\* parentID against an empty remote has returned without error
EndToEnd(k) ==
    /\ calls[k].op = UD /\ calls[k].done /\ ~calls[k].err
    /\ fs = "plain" /\ calls[k].path = N_root /\ calls[k].patsNil
    /\ calls[k].parent = Nil /\ calls[k].pre = EmptyRemote

\* C21 as stated: one creation of sub without parent, one upload of a.txt
\* without parent and one upload of b.txt under the id returned for sub, in
\* the order creation of sub, upload of a.txt, upload of b.txt.
C21_Original ==
    \A k \in 1..Len(calls) :
        EndToEnd(k) =>
        LET a == Additions(k)
        IN  /\ Kinds(a) = <<"create", "upload", "upload">>
            /\ a[1].name = N_sub /\ a[1].parent = Nil
            /\ a[2].name = N_atxt /\ a[2].parent = Nil
            /\ a[3].name = N_btxt /\ a[3].parent = a[1].got

\* C21: the same three requests, in the order of the directory listing:
\* upload of a.txt, creation of sub, upload of b.txt.
C21_EndToEnd ==
    \A k \in 1..Len(calls) :
        EndToEnd(k) =>
        LET a == Additions(k)
        IN  /\ Kinds(a) = <<"upload", "create", "upload">>
            /\ a[1].name = N_atxt /\ a[1].parent = Nil
            /\ a[2].name = N_sub /\ a[2].parent = Nil
            /\ a[2].got # Nil
            /\ a[3].name = N_btxt /\ a[3].parent = a[2].got

\* The walk has returned and every request of it was answered nominally
C21_Witness ==
    /\ Len(calls) = 1 /\ EndToEnd(1) /\ faults = 0
    /\ Len(Additions(1)) = 3


\* Lookups of call k that were answered and matched nothing
MissesOf(k) ==
    {i \in ReqsOf(k) : /\ reqs[i].kind = "lookup"
                        /\ Nominal("lookup", reqs[i].resp)
                        /\ reqs[i].got = Nil}

\* C22: two GetOrCreateFolder calls for the same (name, parentID) whose
\* lookups both found nothing, the lookup of the second being answered
\* before any creation of the first, both issue a creation request; when
\* both creations succeed the calls return different ids and the remote
\* holds two live folders of that name under that parent.
C22_Race ==
    \A a, b \in 1..Len(calls) :
        (/\ a # b /\ calls[a].done /\ calls[b].done
         /\ MissesOf(a) # {} /\ MissesOf(b) # {}
         /\ \A c \in CreatesOf(a) : \A l \in MissesOf(b) : l < c)
        => /\ CreatesOf(a) # {} /\ CreatesOf(b) # {}
           /\ (\A c \in CreatesOf(a) \cup CreatesOf(b) :
                    Nominal("create", reqs[c].resp))
              => /\ ~calls[a].err /\ ~calls[b].err
                 /\ calls[a].val # calls[b].val
                 /\ \A v \in {calls[a].val, calls[b].val} :
                        /\ remote[v].live /\ remote[v].typ = "folder"
                        /\ remote[v].name = calls[a].name
                        /\ remote[v].parent = calls[a].parent

\* Both lookups answered before either creation, every answer nominal: two
\* folders named sub under one parent and two different ids returned
C22_Witness ==
    /\ Len(calls) = 2 /\ calls[1].done /\ calls[2].done /\ faults = 0
    /\ Kinds(reqs) = <<"lookup", "lookup", "create", "create">>
    /\ reqs[1].call # reqs[2].call
    /\ calls[1].val # calls[2].val
    /\ Cardinality({i \in 1..Len(remote) :
            /\ remote[i].live /\ remote[i].typ = "folder"
            /\ remote[i].name = calls[1].name
            /\ remote[i].parent = calls[1].parent}) = 2


\* No two live folders of rem share a name and a parent
NoDuplicateFolders(rem) ==
    \A i, j \in 1..Len(rem) :
        (/\ i # j /\ rem[i].live /\ rem[j].live
         /\ rem[i].typ = "folder" /\ rem[j].typ = "folder"
         /\ rem[i].name = rem[j].name)
        => rem[i].parent # rem[j].parent

\* Every lookup so far was answered with the matching entries
LookupsSucceed ==
    \A i \in 1..Len(reqs) :
        reqs[i].kind = "lookup" => Nominal("lookup", reqs[i].resp)

\* C23: calls made one at a time, with lookups that succeed, starting from
\* a remote without two folders of one name under one parent, leave no two
\* such folders; and an UploadDirectory run that follows a successful run
\* over the same tree and parentID issues no folder-creation request.
C23_NoDuplicates ==
    (/\ calls # <<>> /\ NoDuplicateFolders(calls[1].pre)
     /\ LookupsSucceed)
    => /\ NoDuplicateFolders(remote)
       /\ \A k \in 2..Len(calls) :
              (/\ calls[k].op = UD
               /\ calls[k - 1].done /\ ~calls[k - 1].err)
              => CreatesOf(k) = {}

\* The same statement for calls with a non-nil parentID
C23_WithParent ==
    (calls # <<>> /\ calls[1].parent # Nil) => C23_NoDuplicates

\* The first half of C23 alone
C23_Invariant ==
    (/\ calls # <<>> /\ NoDuplicateFolders(calls[1].pre)
     /\ LookupsSucceed)
    => NoDuplicateFolders(remote)


\* The local tree below directory d in depth-first order: each entry of the
\* listing in turn, a directory followed by everything below it
RECURSIVE DepthFirst(_, _)
DepthFirst(d, n) ==
    IF n > Len(Files[d].entries) THEN <<>>
    ELSE LET p == d \o Sl \o Files[d].entries[n]
         IN  <<p>> \o (IF Files[p].isDir THEN DepthFirst(p, 1) ELSE <<>>)
                  \o DepthFirst(d, n + 1)

\* Position of the local path p in the sequence ps, 0 when absent
PosIn(ps, p) ==
    IF \E n \in 1..Len(ps) : ps[n] = p
    THEN CHOOSE n \in 1..Len(ps) : ps[n] = p
    ELSE 0

\* C24: within one UploadDirectory run requests are issued one after the
\* other, each for an entry of the tree, in depth-first order of the local
\* listings: the requests for one entry come before those for the next
\* entry, and the requests resolving a directory and those for everything
\* below it come before any request for its next sibling; entries are
\* taken up in the same order, each once, and before their requests.
\* (reqs and visits grow by one record per step and keep their records, so
\* the statement is made of the newest request and the newest entry.)
C24_DepthFirst ==
    /\ (reqs # <<>> /\ calls[Last(reqs).call].op = UD) =>
          LET n     == Len(reqs)
              r     == reqs[n]
              order == DepthFirst(calls[r.call].path, 1)
          IN  /\ PosIn(order, r.src) > 0
              /\ (n > 1 /\ reqs[n - 1].call = r.call) =>
                    PosIn(order, reqs[n - 1].src) <= PosIn(order, r.src)
              /\ \E v \in 1..Len(visits) :
                    /\ visits[v].call = r.call
                    /\ visits[v].path = r.src
                    /\ visits[v].what \in {"dir", "file"}
                    /\ visits[v].at < n
                    /\ \A w \in (v + 1)..Len(visits) : visits[w].at >= n
    /\ Len(visits) \in EntryVisits =>
          LET v     == Last(visits)
              order == DepthFirst(calls[v.call].path, 1)
          IN  /\ PosIn(order, v.path) > 0
              /\ \A w \in 1..(Len(visits) - 1) :
                    (w \in EntryVisits /\ visits[w].call = v.call) =>
                    PosIn(order, visits[w].path) < PosIn(order, v.path)
              /\ (reqs # <<>> /\ v.at = Len(reqs)
                  /\ Last(reqs).call = v.call) =>
                    PosIn(order, Last(reqs).src) < PosIn(order, v.path)

\* A finished run over the nested tree that resolved sub, then sub/sub,
\* uploaded sub/z.txt and only then uploaded z.txt of the root
C24_Witness ==
    /\ Len(calls) = 1 /\ calls[1].op = UD /\ calls[1].done /\ ~calls[1].err
    /\ fs = "nested"
    /\ \E a, b, c, d \in ReqsOf(1) :
          /\ a < b /\ b < c /\ c < d
          /\ reqs[a].src = P_root_sub /\ reqs[b].src = P_root_sub_sub
          /\ reqs[c].src = P_root_sub_ztxt /\ reqs[c].kind = "upload"
          /\ reqs[d].src = P_root_ztxt /\ reqs[d].kind = "upload"


\* The remote as call k left it (calls are made one at a time)
RemoteAfter(k) == IF k < Len(calls) THEN calls[k + 1].pre ELSE remote

\* Ids of the entries added to the remote during call k
AddedBy(k) == (Len(calls[k].pre) + 1)..Len(RemoteAfter(k))

\* C25: when UploadDirectory returns an error, every folder and file the
\* run added to the remote is still there, and no request follows the
\* failing one.
C25_NoRollback ==
    \A k \in 1..Len(calls) :
        (calls[k].op = UD /\ calls[k].done /\ calls[k].err) =>
        /\ \A e \in AddedBy(k) : RemoteAfter(k)[e].live
        /\ \A i \in ReqsOf(k) : FatalReq(i) => \A j \in ReqsOf(k) : j <= i

\* The same statement for calls with a non-nil parentID
C25_WithParent ==
    (calls # <<>> /\ calls[1].parent # Nil) => C25_NoRollback

\* The second half of C25 alone
C25_NoCompensation ==
    \A k \in 1..Len(calls) :
        (calls[k].op = UD /\ calls[k].done /\ calls[k].err) =>
        \A i \in ReqsOf(k) : FatalReq(i) => \A j \in ReqsOf(k) : j <= i


\* C26: an UploadFile with overwrite that finds an entry of the name under
\* the parent, whose deletion request is not carried out and whose upload
\* request succeeds, returns success and leaves both the old entry and the
\* new one, of the same name, under the same parent (stated of the call
\* that has just returned).
C26_StaleDuplicate ==
    \A k \in {Len(calls)} \ {0} : \A d, u \in ReqsOf(k) :
        (/\ calls[k].op = UF /\ calls[k].done /\ calls[k].ow
         /\ reqs[d].kind = "delete" /\ ~Applied(reqs[d].resp)
         /\ reqs[u].kind = "upload" /\ Nominal("upload", reqs[u].resp)
         /\ HasConflict(k))
        => /\ ~calls[k].err
           /\ d < u
           /\ reqs[u].got \in AddedBy(k)
           /\ \E old \in 1..Len(calls[k].pre) :
                 LET new == remote[reqs[u].got]
                     e   == remote[old]
                 IN  /\ calls[k].pre[old].live /\ e.live /\ new.live
                     /\ \E n \in 1..Len(reqs[d].ids) :
                            Atoi(reqs[d].ids[n]) = old
                     /\ e.name = new.name /\ e.parent = new.parent
                     /\ new.typ = "file"
                     /\ new.name = Split(calls[k].name)[2]

\* report.pdf uploaded into x over the report.pdf found there, the deletion
\* answered with an error and the upload with 201
C26_Witness ==
    \E k \in 1..Len(calls) : \E d, u \in ReqsOf(k) :
        /\ calls[k].op = UF /\ calls[k].done /\ calls[k].ow
        /\ ~calls[k].err /\ HasConflict(k)
        /\ reqs[d].kind = "delete" /\ ~Applied(reqs[d].resp)
        /\ reqs[u].kind = "upload" /\ Nominal("upload", reqs[u].resp)
        /\ Cardinality({i \in 1..Len(RemoteAfter(k)) :
                /\ RemoteAfter(k)[i].live
                /\ RemoteAfter(k)[i].name = N_report
                /\ RemoteAfter(k)[i].parent = 1}) = 2


\* Pauses of call k
PausesOf(k) == {w \in VisitsOf(k) : visits[w].what = "sleep"}

\* C27 as stated: every upload attempt of a finished UploadDirectory,
\* failed ones included, is followed by a pause.
C27_Original ==
    \A k \in 1..Len(calls) :
        (calls[k].op = UD /\ calls[k].done) =>
        \A u \in UploadsOf(k) :
            \E w \in PausesOf(k) :
                visits[w].path = reqs[u].src /\ visits[w].at >= u

\* C27: in UploadDirectory a successful upload is followed by one pause
\* before the walk does anything else; a failed upload makes the walk
\* return at once, without a pause; no two upload requests of one run are
\* issued without a pause between them (stated of the newest run).
C27_Pacing ==
    \A k \in {Len(calls)} \ {0} :
        calls[k].op = UD =>
        /\ \A u \in UploadsOf(k) :
              LET after == {w \in VisitsOf(k) : visits[w].at >= u}
                  here  == {w \in PausesOf(k) : visits[w].path = reqs[u].src}
              IN  IF Nominal("upload", reqs[u].resp)
                  THEN (\/ calls[k].done \/ after # {}
                        \/ \E j \in ReqsOf(k) : j > u)
                       => /\ Cardinality(here) = 1
                          /\ \A w \in here :
                                /\ visits[w].at = u
                                /\ \A x \in after : w <= x
                  ELSE /\ here = {} /\ after = {}
                       /\ \A j \in ReqsOf(k) : j <= u
                       /\ calls[k].done => calls[k].err
        /\ \A u1, u2 \in UploadsOf(k) :
              u1 < u2 => \E w \in PausesOf(k) :
                            u1 <= visits[w].at /\ visits[w].at < u2

\* A run that uploaded sub/z.txt, paused, and returned the error of the
\* failed upload of z.txt without a pause
C27_Witness ==
    \E k \in 1..Len(calls) : \E u1, u2 \in UploadsOf(k) :
        /\ calls[k].op = UD /\ calls[k].done /\ calls[k].err
        /\ u1 < u2
        /\ Nominal("upload", reqs[u1].resp)
        /\ ~Nominal("upload", reqs[u2].resp)
        /\ Cardinality(PausesOf(k)) = 1


\* C28: an UploadFile with overwrite whose deletion of the same-named entry
\* is carried out and whose upload request then fails returns an error; the
\* deleted entries are no longer live, no entry of that name is live under
\* that parent, and the failed upload is the one upload and the last request
\* of the call (stated of the call that has just returned).
C28_LossWindow ==
    \A k \in {Len(calls)} \ {0} : \A d, u \in ReqsOf(k) :
        (/\ calls[k].op = UF /\ calls[k].done /\ calls[k].ow
         /\ reqs[d].kind = "delete" /\ Applied(reqs[d].resp)
         /\ reqs[u].kind = "upload" /\ ~Applied(reqs[u].resp)
         /\ HasConflict(k))
        => /\ calls[k].err
           /\ d < u
           /\ UploadsOf(k) = {u}
           /\ \A j \in ReqsOf(k) : j <= u
           /\ \A n \in 1..Len(reqs[d].ids) :
                 ~remote[Atoi(reqs[d].ids[n])].live
           /\ \A e \in 1..Len(remote) :
                 (remote[e].live /\ remote[e].name = reqs[u].name)
                 => remote[e].parent # reqs[u].parent

\* report.pdf of x deleted for the overwrite and the upload then rejected:
\* x holds no report.pdf any more
C28_Witness ==
    \E k \in 1..Len(calls) : \E d, u \in ReqsOf(k) :
        /\ calls[k].op = UF /\ calls[k].done /\ calls[k].ow
        /\ calls[k].err /\ HasConflict(k)
        /\ calls[k].name = N_report /\ calls[k].parent = 1
        /\ reqs[d].kind = "delete" /\ Nominal("delete", reqs[d].resp)
        /\ reqs[u].kind = "upload" /\ ~Applied(reqs[u].resp)
        /\ ~RemoteAfter(k)[4].live


\* Number of separators in a name
Slashes(name) == Cardinality({i \in 1..Len(name) : name[i] = "/"})

\* C29: every recursive call of GetOrCreateFolder receives a strictly
\* shorter name, so the recursion is at most one level deep per separator
\* and comes to an end; a call for a name with k separators issues at most
\* k+1 lookups and at most k+1 creations, whatever the remote answers.
C29_Bounded ==
    /\ \A n \in 2..Len(stack) :
          (stack[n].fn = GOCF /\ stack[n - 1].fn = GOCF)
          => Len(stack[n].name) < Len(stack[n - 1].name)
    /\ \A k \in 1..Len(calls) :
          calls[k].op = GOCF =>
          /\ (k = Len(calls) /\ ~calls[k].done)
                => Len(stack) <= Slashes(calls[k].name) + 1
          /\ Cardinality({i \in ReqsOf(k) : reqs[i].kind = "lookup"})
                <= Slashes(calls[k].name) + 1
          /\ Cardinality(CreatesOf(k)) <= Slashes(calls[k].name) + 1

\* x/sub/y resolved through three nested calls on an empty remote: three
\* lookups and three creations, the bound for two separators
C29_Witness ==
    \E k \in 1..Len(calls) :
        /\ calls[k].op = GOCF /\ calls[k].done /\ ~calls[k].err
        /\ calls[k].name = P_x_sub_y
        /\ Cardinality({i \in ReqsOf(k) : reqs[i].kind = "lookup"}) = 3
        /\ Cardinality(CreatesOf(k)) = 3


\* C30: an UploadDirectory whose directoryPath itself holds an exclusion
\* pattern skips every entry of that directory as excluded, visits nothing
\* below, issues no request and returns success.
C30_RootExcluded ==
    \A k \in 1..Len(calls) :
        (calls[k].op = UD /\ Excluded(k, calls[k].path)) =>
        /\ ReqsOf(k) = {}
        /\ \A v \in VisitsOf(k) :
              /\ visits[v].what = "excluded"
              /\ DirOf(visits[v].path) = calls[k].path
        /\ calls[k].done =>
              /\ ~calls[k].err
              /\ Cardinality(VisitsOf(k))
                    = Len(Files[calls[k].path].entries)

\* project walked with the pattern roj: .git and gitlog.txt both skipped,
\* nothing requested, success returned
C30_Witness ==
    \E k \in 1..Len(calls) :
        /\ calls[k].op = UD /\ calls[k].done /\ ~calls[k].err
        /\ calls[k].path = N_project /\ ~calls[k].patsNil
        /\ calls[k].pats = << <<"r", "o", "j">> >>
        /\ ReqsOf(k) = {}
        /\ \E v \in VisitsOf(k) :
              visits[v].what = "excluded" /\ visits[v].path = P_project_gitlog
        /\ \E v \in VisitsOf(k) :
              visits[v].what = "excluded" /\ visits[v].path = P_project_dotgit


\* Every request of call k was answered with success
AllNominal(k) ==
    \A i \in ReqsOf(k) : Nominal(reqs[i].kind, reqs[i].resp)

\* Local files call k has to upload
UploadedFiles(k) ==
    {p \in Mirrored(k) : ~Files[p].isDir /\ Files[p].statOk}

\* Two successful runs of UploadDirectory in a row, the second one being
\* the newest call, with a non-nil parentID and every request answered
\* with success
SyncedTwice ==
    /\ Len(calls) >= 2
    /\ LET k == Len(calls)
       IN  /\ calls[k].op = UD /\ calls[k - 1].op = UD
           /\ calls[k].parent # Nil
           /\ calls[k].done /\ ~calls[k].err
           /\ calls[k - 1].done /\ ~calls[k - 1].err
           /\ AllNominal(k) /\ AllNominal(k - 1)

\* C31: after two successful runs of UploadDirectory over the same tree
\* with a non-nil parentID, every uploaded local file has exactly one live
\* entry of its name in the remote folder that corresponds to its local
\* directory; for each file the second run issued exactly one deletion,
\* naming exactly the entry the first run uploaded, and then exactly one
\* upload.
C31_RepeatedSync ==
    SyncedTwice =>
    LET k == Len(calls)
    IN  \A p \in UploadedFiles(k) :
            LET first == {i \in ReqsFor(k - 1, p) : reqs[i].kind = "upload"}
                dels  == {i \in ReqsFor(k, p) : reqs[i].kind = "delete"}
                ups   == {i \in ReqsFor(k, p) : reqs[i].kind = "upload"}
            IN  /\ Cardinality(first) = 1
                /\ Cardinality(dels) = 1
                /\ Cardinality(ups) = 1
                /\ \A u1 \in first : \A d \in dels : \A u2 \in ups :
                      /\ d < u2
                      /\ reqs[d].ids = <<Itoa(reqs[u1].got)>>
                      /\ ~remote[reqs[u1].got].live
                      /\ reqs[u2].name = Split(p)[2]
                      /\ reqs[u2].parent = reqs[u1].parent
                      /\ reqs[u2].parent \in
                            Resolve(remote, {calls[k].parent}, RelDir(k, p))
                      /\ {e \in 1..Len(remote) :
                              /\ remote[e].live
                              /\ remote[e].name = Split(p)[2]
                              /\ remote[e].parent = reqs[u2].parent}
                            = {reqs[u2].got}

\* The nested tree uploaded twice into folder x: one live z.txt in x and one
\* in x/sub, each the upload of the second run
C31_Witness ==
    /\ Len(calls) = 2 /\ SyncedTwice /\ fs = "nested"
    /\ UploadedFiles(2) = {P_root_ztxt, P_root_sub_ztxt}
    /\ Cardinality({e \in 1..Len(remote) :
            remote[e].live /\ remote[e].name = N_ztxt}) = 2
    /\ Cardinality({i \in ReqsOf(2) : reqs[i].kind = "delete"}) = 2

====
